---- MODULE Spec2Model ----
(***************************************************************************)
(* LifeAssistant / ProductiveBot: the task extraction and time             *)
(* reconciliation pipeline (bot/utils.py, bot/handlers/tasks.py,           *)
(* bot/csv_db.py).                                                         *)
(*                                                                         *)
(* Text is modelled as Python sees it: a message is a sequence of lines,   *)
(* a line is a sequence of one-character strings.  The character "mdash"   *)
(* stands for U+2014, " " for any whitespace character.                    *)
(* An optional value (Python's None or a value) is a sequence of length    *)
(* at most one: None is << >>, a present value x is <<x>>.  An optional    *)
(* string is the string itself, None being the empty sequence, exactly     *)
(* where the source tests the value by truthiness.                         *)
(***************************************************************************)
EXTENDS Integers, Sequences, FiniteSets, TLC

VARIABLES
    text,          \* the message text: a sequence of lines
    timestamp,     \* the reference timestamp taken by process_tasks
    conn,          \* the user's stored workspace connections
    pc,            \* position of the handler
    task_date,     \* the resolved batch date (analyze_task_with_gpt)
    parsed_tasks,  \* outcome of _parse_activity_lines
    gpt_raw,       \* the language model's response, as received
    gpt_tasks,     \* what json.loads made of the response (task mode)
    mode,          \* the pipeline handle_text chose
    thoughts_text, \* the text handed to process_thoughts
    thoughts_data, \* outcome of analyze_thoughts_with_gpt: None or the loaded value
    invocations,   \* the pipeline invocations sharing the flat file: user, batch, position
    saved_log,     \* history: the successful save_tasks calls, in order
    user_tasks,    \* what the last get_user_tasks call returned: None before any
    tasks_data,    \* outcome of analyze_task_with_gpt: None or the merged list
    events,        \* remote requests issued so far, in order
    tasks_csv,     \* rows of the flat-file task store
    notion_pages,  \* records created in the workspace database
    answers,       \* messages sent to the user, in order
    returned,      \* what process_tasks returned: None while it runs
    timer_tasks,   \* the asyncio tasks running run_timer, in creation order
    active_timers, \* pomodoro.active_timers: user -> index of a task, 0 when no key
    fsm_state,     \* the FSM state of each user's private chat
    bot_answers,   \* messages the pomodoro handlers and timers sent, in order
    suspended,     \* handlers suspended in an await before their state.clear()
    last_update,   \* history: the last update dispatched and the handler that took it
    updates_left,  \* updates the dispatcher still accepts
    last_by_user,  \* vocab._last_by_user: user -> None or the cached entry
    vocab_csv,     \* rows of data/vocab.csv, in order
    vocab_answers, \* messages the vocabulary handlers sent, in order
    conn_csv,      \* rows of notion_connections.csv as written: the cells are text
    latest_saved,  \* history: user, connection type -> the value of the last successful save
    conn_got,      \* what the last get_notion_connection call returned: None before any
    dashboard      \* the connection status of the last dashboard sent: None before any

\* the variables of the text pipelines and of the flat-file task store
core_vars == <<text, timestamp, conn, pc, task_date, parsed_tasks, gpt_raw, gpt_tasks,
               mode, thoughts_text, thoughts_data, invocations, saved_log, user_tasks,
               tasks_data, events, tasks_csv, notion_pages, answers, returned>>

\* the variables of the pomodoro handlers
timer_vars == <<timer_tasks, active_timers, fsm_state, bot_answers, suspended,
                last_update, updates_left>>

\* the variables of the vocabulary handlers
vocab_vars == <<last_by_user, vocab_csv, vocab_answers>>

\* the variables of the connection store and of the dashboard
conn_vars == <<conn_csv, latest_saved, conn_got, dashboard>>

\* the variables of the handlers outside the text pipelines
handler_vars == <<timer_vars, vocab_vars, conn_vars>>

vars == <<core_vars, handler_vars>>

\* the variables of the thought pipeline and of the routing
thought_vars == <<mode, thoughts_text, thoughts_data>>

\* the variables of the shared flat-file store
store_vars == <<invocations, saved_log, user_tasks>>

(***************************************************************************)
(* Bounds of the model.                                                    *)
(***************************************************************************)
MaxLines == 3
MaxTokens == 3
MaxBatch == 3
MaxDatedBatch == 1
MaxIdeas == 2
MaxInvocations == 3

(***************************************************************************)
(* Optional values and small sequence helpers.                             *)
(***************************************************************************)
None == << >>

Some(x) == <<x>>

SeqsUpTo(S, n) == UNION {[1..k -> S] : k \in 0..n}

Last(s) == s[Len(s)]

\* Only({e(x) : x \in {v}}) is LET x == v IN e(x), with v evaluated once
Only(S) == CHOOSE x \in S : TRUE

RECURSIVE Concat(_)
Concat(ss) == IF ss = << >> THEN << >> ELSE Head(ss) \o Concat(Tail(ss))

(***************************************************************************)
(* Characters and the str methods the parser uses.                         *)
(***************************************************************************)
DigitChars == <<"0", "1", "2", "3", "4", "5", "6", "7", "8", "9">>

Digits == {DigitChars[i] : i \in 1..10}

DigitVal(c) == (CHOOSE i \in 1..10 : DigitChars[i] = c) - 1

IsSpace(c) == c = " "

IsDash(c) == c \in {"-", "mdash"}

\* str.lstrip / str.rstrip / str.strip
RECURSIVE lstrip(_)
lstrip(s) == IF s # << >> /\ IsSpace(Head(s)) THEN lstrip(Tail(s)) ELSE s

RECURSIVE rstrip(_)
rstrip(s) ==
    IF s # << >> /\ IsSpace(Last(s)) THEN rstrip(SubSeq(s, 1, Len(s) - 1)) ELSE s

strip(s) == rstrip(lstrip(s))

\* str.isdigit
isdigit(s) == s # << >> /\ \A i \in 1..Len(s) : s[i] \in Digits

\* int(s) for a string of decimal digits
RECURSIVE int(_)
int(s) == IF s = << >> THEN 0 ELSE 10 * int(SubSeq(s, 1, Len(s) - 1)) + DigitVal(Last(s))

\* str(n) for a natural number
RECURSIVE str(_)
str(n) == IF n < 10 THEN <<DigitChars[n + 1]>> ELSE str(n \div 10) \o <<DigitChars[(n % 10) + 1]>>

\* s.split()[-1]: the last whitespace-delimited token of a stripped, non-empty string
RECURSIVE LastToken(_)
LastToken(s) ==
    IF s = << >> \/ IsSpace(Last(s)) THEN << >>
    ELSE LastToken(SubSeq(s, 1, Len(s) - 1)) \o <<Last(s)>>

\* s.rfind(sub): the highest 0-based index where sub occurs in s, -1 if none
rfind(s, sub) ==
    LET hits == {i \in 0..(Len(s) - Len(sub)) : SubSeq(s, i + 1, i + Len(sub)) = sub}
    IN  IF hits = {} THEN -1 ELSE CHOOSE i \in hits : \A j \in hits : j <= i

\* s[:k] for k >= 0
Prefix(s, k) == SubSeq(s, 1, IF k < Len(s) THEN k ELSE Len(s))

\* s[:k] as Python slices it: a negative k counts from the end
SliceTo(s, k) == IF k >= 0 THEN Prefix(s, k) ELSE Prefix(s, IF Len(s) + k > 0 THEN Len(s) + k ELSE 0)

(***************************************************************************)
(* _RE_LINE: leading whitespace, the start token, whitespace, one hyphen   *)
(* or dash, whitespace, an optional end token with whitespace, and a lazy  *)
(* body of at least one character up to the trailing whitespace; matched   *)
(* the way the regex engine does (greedy whitespace, the optional end      *)
(* group tried first, backtracking when the body would be empty).          *)
(***************************************************************************)
\* length of a leading \d{1,2}:\d{2}, 0 when s does not start with one
TimeTokenLen(s) ==
    LET ok(k) == /\ Len(s) >= k + 3
                 /\ \A i \in 1..k : s[i] \in Digits
                 /\ s[k + 1] = ":"
                 /\ s[k + 2] \in Digits
                 /\ s[k + 3] \in Digits
    IN  IF ok(2) THEN 5 ELSE IF ok(1) THEN 4 ELSE 0

NoMatch == [matched |-> FALSE, start |-> None, end |-> None, body |-> None]

Matched(st, en, bo) == [matched |-> TRUE, start |-> st, end |-> en, body |-> bo]

\* the groups after the separator: rest is the line after the hyphen/dash
RE_LINE_tail(st, rest) ==
    LET r1 == lstrip(rest)
        n  == TimeTokenLen(r1)
        r2 == SubSeq(r1, n + 1, Len(r1))
        r3 == lstrip(r2)
    IN  IF n > 0 /\ r3 # << >> THEN Matched(st, Prefix(r1, n), rstrip(r3))
        ELSE IF n > 0 /\ r2 # << >> THEN Matched(st, Prefix(r1, n), <<Last(r2)>>)
        ELSE IF r1 # << >> THEN Matched(st, None, rstrip(r1))
        ELSE IF rest # << >> THEN Matched(st, None, <<Last(rest)>>)
        ELSE NoMatch

RE_LINE(line) ==
    LET s0 == lstrip(line)
        n  == TimeTokenLen(s0)
        s1 == lstrip(SubSeq(s0, n + 1, Len(s0)))
    IN  IF n = 0 THEN NoMatch
        ELSE IF s1 = << >> \/ ~IsDash(Head(s1)) THEN NoMatch
        ELSE RE_LINE_tail(Prefix(s0, n), Tail(s1))

(***************************************************************************)
(* _parse_activity_lines, first pass: one raw task per matching line.      *)
(***************************************************************************)
\* lines 110-115: the trailing "bare" number of the body
ExtractCsat(body) ==
    LET body_clean == strip(body)
        tok == LastToken(body_clean)
    IN  IF body_clean # << >> /\ isdigit(tok)
        THEN [csat |-> Some(int(tok)),
              name |-> rstrip(SliceTo(body_clean, rfind(body_clean, str(int(tok)))))]
        ELSE [csat |-> None, name |-> body_clean]

RawTask(m) ==
    LET c == ExtractCsat(m.body)
    IN  [start_time |-> m.start, explicit_end |-> m.end, name |-> c.name, csat |-> c.csat]

\* a line the first pass turns into a raw task
LineMatches(line) == strip(line) # << >> /\ RE_LINE(line).matched

\* the first pass leaving its loop at the first line that does not match
\* (break instead of continue)
RECURSIVE RawTasks_StopAtJunk(_)
RawTasks_StopAtJunk(lines) ==
    IF lines = << >> THEN << >>
    ELSE IF LineMatches(Head(lines))
         THEN <<RawTask(RE_LINE(Head(lines)))>> \o RawTasks_StopAtJunk(Tail(lines))
         ELSE << >>

RECURSIVE RawTasks(_)
RawTasks(lines) ==
    IF lines = << >> THEN << >>
    ELSE IF LineMatches(Head(lines))
         THEN <<RawTask(RE_LINE(Head(lines)))>> \o RawTasks(Tail(lines))
         ELSE RawTasks(Tail(lines))

(***************************************************************************)
(* Second pass: the end time of a task without explicit end is the start   *)
(* time of the next raw task.                                              *)
(***************************************************************************)
\* the second pass taking the successor's start whether or not the line has
\* an explicit end
EndTime_NextOnly(raw, idx) ==
    IF idx + 1 <= Len(raw) THEN raw[idx + 1].start_time ELSE None

EndTime(raw, idx) ==
    IF raw[idx].explicit_end # None THEN raw[idx].explicit_end
    ELSE IF idx + 1 <= Len(raw) THEN raw[idx + 1].start_time
    ELSE None

(***************************************************************************)
(* Calendar: datetime.date, datetime.combine, datetime.replace.            *)
(***************************************************************************)
IsLeap(y) == (y % 4 = 0 /\ y % 100 # 0) \/ y % 400 = 0

DaysInMonth(y, m) ==
    IF m = 2 THEN (IF IsLeap(y) THEN 29 ELSE 28)
    ELSE IF m \in {4, 6, 9, 11} THEN 30 ELSE 31

ValidDate(d) == d.m \in 1..12 /\ d.d \in 1..DaysInMonth(d.y, d.m)

\* the calendar day after d
NextDay(d) ==
    IF d.d < DaysInMonth(d.y, d.m) THEN [d EXCEPT !.d = d.d + 1]
    ELSE IF d.m < 12 THEN [y |-> d.y, m |-> d.m + 1, d |-> 1]
    ELSE [y |-> d.y + 1, m |-> 1, d |-> 1]

\* a reading of the token that takes any two numbers for a time of day
ParseTime_AnyNumber(tok) ==
    Some([hh |-> int(SubSeq(tok, 1, Len(tok) - 3)) % 24,
          mm |-> int(SubSeq(tok, Len(tok) - 1, Len(tok))) % 60])

\* datetime.strptime(tok, "%H:%M").time(): None stands for ValueError
ParseTime(tok) ==
    LET k  == Len(tok) - 3
        hh == int(SubSeq(tok, 1, k))
        mm == int(SubSeq(tok, k + 2, k + 3))
    IN  IF hh <= 23 /\ mm <= 59 THEN Some([hh |-> hh, mm |-> mm]) ELSE None

Combine(day, t) == [date |-> day, hh |-> t.hh, mm |-> t.mm]

\* a < b for two datetimes carrying the same tzinfo
DtLess(a, b) ==
    LET k(x) == <<x.date.y, x.date.m, x.date.d, x.hh, x.mm>>
        RECURSIVE lt(_, _, _)
        lt(p, q, i) == IF i > 5 THEN FALSE
                       ELSE IF p[i] # q[i] THEN p[i] < q[i] ELSE lt(p, q, i + 1)
    IN  lt(k(a), k(b), 1)

\* the rollover leaving the end on the batch date
ReplaceDay_Unchanged(dt, day) == Some(dt)

\* end_candidate.replace(day=day.day + 1): None stands for ValueError
ReplaceDayPlusOne(dt, day) ==
    LET nd == [dt.date EXCEPT !.d = day.d + 1]
    IN  IF ValidDate(nd) THEN Some([dt EXCEPT !.date = nd]) ELSE None

(***************************************************************************)
(* Third pass: the datetimes.  The outcome of one raw task is the task or  *)
(* None when the source raises.                                            *)
(***************************************************************************)
BuildTask(raw, idx, day) ==
    LET task    == raw[idx]
        st      == ParseTime(task.start_time)
        end_raw == EndTime(raw, idx)
        en      == IF end_raw # None THEN ParseTime(end_raw) ELSE None
    IN  IF st = None THEN None
        ELSE LET start_dt == Combine(day, st[1])
             IN  IF end_raw = None
                 THEN Some([name |-> task.name, start_datetime |-> start_dt,
                            end_datetime |-> None, csat |-> task.csat])
                 ELSE IF en = None THEN None
                 ELSE LET end_candidate == Combine(day, en[1])
                          end_dt == IF DtLess(end_candidate, start_dt)
                                    THEN ReplaceDayPlusOne(end_candidate, day)
                                    ELSE Some(end_candidate)
                      IN  IF end_dt = None THEN None
                          ELSE Some([name |-> task.name, start_datetime |-> start_dt,
                                     end_datetime |-> end_dt, csat |-> task.csat])

\* the function's outcome: ok = FALSE when it raises
parse_activity_lines(lines, day) ==
    Only({ IF \E i \in 1..Len(raw) : BuildTask(raw, i, day) = None
           THEN [ok |-> FALSE, tasks |-> << >>]
           ELSE [ok |-> TRUE, tasks |-> [i \in 1..Len(raw) |-> BuildTask(raw, i, day)[1]]]
           : raw \in {RawTasks(lines)} })

(***************************************************************************)
(* _parse_date: the date of the first line.  kind is "date", "none" (the   *)
(* line is no date line) or "raise" (the conversion raises ValueError).    *)
(***************************************************************************)
AllDigits(s, a, b) == \A i \in a..b : s[i] \in Digits

\* _RE_DATE_ISO on the stripped line
RE_DATE_ISO(s) ==
    /\ Len(s) = 10
    /\ AllDigits(s, 1, 4) /\ s[5] = "-" /\ AllDigits(s, 6, 7) /\ s[8] = "-"
    /\ AllDigits(s, 9, 10)

IsDateSep(c) == c \in {".", "/"}

\* leading digits of s, at most k of them
RECURSIVE DigitRun(_, _)
DigitRun(s, k) ==
    IF k = 0 \/ s = << >> \/ Head(s) \notin Digits THEN << >>
    ELSE <<Head(s)>> \o DigitRun(Tail(s), k - 1)

\* _RE_DATE_DMY on the stripped line: its three digit groups and two separators
DMYParts(s) ==
    Only({ Only({ Only({
        [ok   |-> /\ Len(dd) >= 1 /\ Len(s) > Len(dd) /\ IsDateSep(s[Len(dd) + 1])
                  /\ Len(mo) >= 1 /\ Len(s) > Len(dd) + Len(mo) + 1
                  /\ IsDateSep(s[Len(dd) + Len(mo) + 2])
                  /\ Len(yy) >= 2 /\ Len(s) = Len(dd) + Len(mo) + Len(yy) + 2,
         dd   |-> dd, mo |-> mo, yy |-> yy,
         sep1 |-> IF Len(s) > Len(dd) THEN s[Len(dd) + 1] ELSE "",
         sep2 |-> IF Len(s) > Len(dd) + Len(mo) + 1 THEN s[Len(dd) + Len(mo) + 2] ELSE ""]
        : yy \in {DigitRun(SubSeq(s, Len(dd) + Len(mo) + 3, Len(s)), 4)} })
        : mo \in {DigitRun(SubSeq(s, Len(dd) + 2, Len(s)), 2)} })
        : dd \in {DigitRun(s, 2)} })

RE_DATE_DMY(s) == DMYParts(s).ok

DateOrRaise(y, m, d) ==
    LET v == [y |-> y, m |-> m, d |-> d]
    IN  IF y >= 1 /\ ValidDate(v) THEN [kind |-> "date", date |-> v]
        ELSE [kind |-> "raise", date |-> v]

\* datetime.fromisoformat(s).date()
FromIsoFormat(s) ==
    DateOrRaise(int(SubSeq(s, 1, 4)), int(SubSeq(s, 6, 7)), int(SubSeq(s, 9, 10)))

\* datetime.strptime(s, "%d.%m.%Y").date(): the separators are literal dots
\* and %Y takes exactly four digits
StrptimeDMY(s) ==
    Only({ IF p.sep1 = "." /\ p.sep2 = "." /\ Len(p.yy) = 4 /\ int(p.dd) >= 1 /\ int(p.mo) >= 1
           THEN DateOrRaise(int(p.yy), int(p.mo), int(p.dd))
           ELSE [kind |-> "raise", date |-> [y |-> 0, m |-> 0, d |-> 0]]
           : p \in {DMYParts(s)} })

parse_date(line) ==
    Only({ IF RE_DATE_ISO(s) THEN FromIsoFormat(s)
           ELSE IF RE_DATE_DMY(s) THEN StrptimeDMY(s)
           ELSE [kind |-> "none", date |-> [y |-> 0, m |-> 0, d |-> 0]]
           : s \in {strip(line)} })

(***************************************************************************)
(* The reference timestamp: process_tasks formats datetime.now() without   *)
(* zone, analyze_task_with_gpt reads it back and astimezone() takes the    *)
(* naive value as the server's local time.  utcoff is the server's offset  *)
(* from UTC in minutes.                                                    *)
(***************************************************************************)
MoscowUtcOffset == 180

PrevDay(d) ==
    IF d.d > 1 THEN [d EXCEPT !.d = d.d - 1]
    ELSE IF d.m > 1 THEN [y |-> d.y, m |-> d.m - 1, d |-> DaysInMonth(d.y, d.m - 1)]
    ELSE [y |-> d.y - 1, m |-> 12, d |-> 31]

\* the date as the server's clock shows it, without conversion to the zone
TimestampDate_Naive(ts) == ts.date

\* datetime.fromisoformat(timestamp).astimezone(TZ_MOSCOW).date()
TimestampDate(ts) ==
    LET mins == ts.hh * 60 + ts.mm + (MoscowUtcOffset - ts.utcoff)
    IN  IF mins >= 1440 THEN NextDay(ts.date)
        ELSE IF mins < 0 THEN PrevDay(ts.date)
        ELSE ts.date

\* _to_iso_local: the ISO-8601 string, as its fields; None stays None
to_iso_local(dt) ==
    IF dt = None THEN None
    ELSE Some([date |-> dt[1].date, hh |-> dt[1].hh, mm |-> dt[1].mm, ss |-> 0,
               utcoff |-> MoscowUtcOffset])

(***************************************************************************)
(* Inputs.                                                                 *)
(***************************************************************************)
\* lines of a task message, for the parser
SampleLines ==
    { <<"9", ":", "0", "0", " ", "-", " ", "A">>,               \* '9:00 - A'
      <<"9", ":", "3", "0", "-", "1", "0", ":", "0", "0", " ", "B", " ", "7">>,\* '9:30-10:00 B 7'
      <<"2", "3", ":", "5", "0", " ", "-", " ", "0", ":", "1", "0", " ", "C">>,\* '23:50 - 0:10 C'
      <<"0", ":", "2", "0", " ", "mdash", " ", "D">>,           \* '0:20 (mdash) D'
      <<>>,                                                     \* ''
      <<"n", "o", "t", "e">>,                                   \* 'note'
      <<"2", "5", ":", "0", "0", " ", "-", " ", "E">>,          \* '25:00 - E'
      <<"9", ":", "0", "0", " ", "-", " ", "9", ":", "3", "0">>,\* '9:00 - 9:30'
      <<" ", "9", ":", "0", "5", " ", "-", "F", " ", " ">> }    \* ' 9:05 -F  '

\* whitespace-delimited tokens of a line body
CsatTokens ==
    { <<"a">>,                                                  \* 'a'
      <<"7">>,                                                  \* '7'
      <<"0", "7">>,                                             \* '07'
      <<"0", "0">>,                                             \* '00'
      <<"1", "0">>,                                             \* '10'
      <<"a", "7">> }                                            \* 'a7'

\* first lines holding a calendar date
DateLines ==
    { <<"2", "0", "2", "4", "-", "0", "3", "-", "0", "5">>,     \* '2024-03-05'
      <<"0", "5", ".", "0", "3", ".", "2", "0", "2", "4">>,     \* '05.03.2024'
      <<"1", ".", "1", ".", "2", "0", "2", "5">>,               \* '1.1.2025'
      <<"0", "5", "/", "0", "3", "/", "2", "0", "2", "4">>,     \* '05/03/2024'
      <<"0", "5", ".", "0", "3", ".", "2", "4">>,               \* '05.03.24'
      <<"2", "0", "2", "4", "-", "0", "2", "-", "3", "0">>,     \* '2024-02-30'
      <<"3", "1", ".", "1", "2", ".", "2", "0", "2", "4">> }    \* '31.12.2024'

\* lines of a task message, for the pipeline
TaskLines ==
    { <<"9", ":", "0", "0", " ", "-", " ", "A">>,               \* '9:00 - A'
      <<"2", "3", ":", "5", "0", " ", "-", " ", "0", ":", "1", "0", " ", "B", " ", "7">>,\* '23:50 - 0:10 B 7'
      <<"n", "o", "t", "e">>,                                   \* 'note'
      <<"9", ":", "3", "0", " ", "-", " ", "A", " ", "0", "7">>,\* '9:30 - A 07'
      <<"9", ":", "4", "0", " ", "-", " ", "A", " ", "0">>,     \* '9:40 - A 0'
      <<"2", "5", ":", "0", "0", " ", "-", " ", "E">>,          \* '25:00 - E'
      <<"9", ":", "0", "0", " ", "-", " ", "9", ":", "7", "5", " ", "F">> }\* '9:00 - 9:75 F'

D(y, m, d) == [y |-> y, m |-> m, d |-> d]

\* batch dates: inside a month, the last day of months of 31, 30, 29 and 28
\* days, the last day of a year
SampleDays ==
    {D(2024, 3, 5), D(2024, 1, 31), D(2024, 4, 30), D(2024, 2, 29), D(2023, 2, 28),
     D(2024, 12, 31)}

\* the server's clock when the message arrives: a server on Moscow time, a
\* server on UTC late in the evening, a server on UTC+10 early in the morning
SampleTimestamps ==
    {[date |-> D(2024, 3, 5), hh |-> 22, mm |-> 0, utcoff |-> 180],
     [date |-> D(2024, 3, 5), hh |-> 22, mm |-> 0, utcoff |-> 0],
     [date |-> D(2024, 3, 1), hh |-> 1, mm |-> 0, utcoff |-> 600]}

\* a body of k tokens joined by single spaces, after the prefix "9:00 - "
RECURSIVE JoinTokens(_)
JoinTokens(toks) ==
    IF Len(toks) = 0 THEN << >>
    ELSE IF Len(toks) = 1 THEN toks[1]
    ELSE toks[1] \o <<" ">> \o JoinTokens(Tail(toks))

CsatLine(toks) == <<"9", ":", "0", "0", " ", "-", " ">> \o JoinTokens(toks)

\* what get_notion_connection returns for NOTION_TOKEN, NOTION_MAIN_DATABASE_ID,
\* NOTION_DATABASE_ID_1 and NOTION_THOUGHTS_DATABASE_ID (a stored value or None)
Connections ==
    {[token |-> FALSE, db |-> FALSE, cat |-> FALSE, tdb |-> FALSE],
     [token |-> TRUE,  db |-> FALSE, cat |-> TRUE,  tdb |-> TRUE],
     [token |-> TRUE,  db |-> TRUE,  cat |-> FALSE, tdb |-> FALSE],
     [token |-> TRUE,  db |-> TRUE,  cat |-> TRUE,  tdb |-> TRUE]}

(***************************************************************************)
(* A Python dict of a task is a record over DictKeys: a key the dict does  *)
(* not hold is Absent, a key it holds is Present(value).                   *)
(***************************************************************************)
DictKeys == {"name", "type", "start_datetime", "end_datetime", "csat", "user_id"}

Absent == << >>

Present(v) == <<v>>

Has(d, k) == d[k] # Absent

\* objects the classifier may return: without or with the keys the merge sets
ClassifierObjects ==
    {[name |-> Present("n1"), type |-> Present("ChatGPTactivity"),
      start_datetime |-> Absent, end_datetime |-> Absent, csat |-> Absent,
      user_id |-> Absent],
     [name |-> Present("n2"), type |-> Present("ChatGPTtask"),
      start_datetime |-> Present(Some([date |-> D(1999, 1, 1), hh |-> 0, mm |-> 0, ss |-> 0,
                                       utcoff |-> 0])),
      end_datetime |-> Present(None), csat |-> Present(Some(99)), user_id |-> Absent]}

\* what list_page_options may return: no target (also on any error), or targets
PageOptions == {<< >>, <<[name |-> "work", id |-> "p1", descr |-> "job"]>>}

(***************************************************************************)
(* analyze_task_with_gpt, steps 1 and 2 (lines 208-221): the batch date    *)
(* and the local parse.  raised = TRUE when the source raises; the except  *)
(* clause then makes the function return None.                             *)
(***************************************************************************)
NotParsed == [ok |-> FALSE, tasks |-> << >>]

\* lines 212-221, the first line's date being pd
AnalyzeWithDate(task_text, ts, pd) ==
    LET day   == IF pd.kind = "date" THEN pd.date ELSE TimestampDate(ts)
        lines == IF pd.kind = "date" THEN Tail(task_text) ELSE task_text
    IN  Only({ [raised    |-> ~parsed.ok \/ parsed.tasks = << >>,
                task_date |-> Some(day),
                parsed    |-> parsed]
               : parsed \in {parse_activity_lines(lines, day)} })

AnalyzeLocal(task_text, ts) ==
    IF task_text = << >>
    THEN [raised |-> TRUE, task_date |-> None, parsed |-> NotParsed]
    ELSE Only({ IF pd.kind = "raise"
                THEN [raised |-> TRUE, task_date |-> None, parsed |-> NotParsed]
                ELSE AnalyzeWithDate(task_text, ts, pd)
                : pd \in {parse_date(Head(task_text))} })

\* task_names (line 224)
TaskNames(tasks) == [i \in 1..Len(tasks) |-> tasks[i].name]

\* datetime.now().strftime("%Y-%m-%d %H:%M:%S"): the clock's reading without
\* any zone (tasks.py line 141)
TimestampString(ts) == [date |-> ts.date, hh |-> ts.hh, mm |-> ts.mm]

\* build_prompt: the three values filled into TASK_ANALYSIS_PROMPT; task_text
\* is one line "- name" per name, sphere_block the targets
build_prompt(task_names, ts, page_opts) ==
    [task_text    |-> [i \in 1..Len(task_names) |-> <<"-", " ">> \o task_names[i]],
     timestamp    |-> TimestampString(ts),
     sphere_block |-> page_opts]

(***************************************************************************)
(* The language model's response (lines 191-193 and 237-239).  The request *)
(* raises, or answers with a text: optional whitespace, an optional        *)
(* opening code fence with or without the language tag "json", a payload,  *)
(* an optional closing fence, optional whitespace.  The payload is a text  *)
(* json.loads rejects ("badjson") or the JSON value it denotes: an object, *)
(* a string, a number, null or an array; truthy is Python's truth value of *)
(* the loaded value.                                                       *)
(***************************************************************************)
NoFence == "none"

\* a fence of three backquotes followed by the tag json
FenceJson == "fence_json"

\* a fence of three backquotes
FencePlain == "fence"

\* JSON texts that are no array, and a text that is no JSON
NonArrayPayloads ==
    {[kind |-> "badjson", items |-> << >>, truthy |-> FALSE],
     [kind |-> "object",  items |-> << >>, truthy |-> TRUE],
     [kind |-> "object",  items |-> << >>, truthy |-> FALSE],
     [kind |-> "string",  items |-> << >>, truthy |-> TRUE],
     [kind |-> "number",  items |-> << >>, truthy |-> TRUE],
     [kind |-> "null",    items |-> << >>, truthy |-> FALSE]}

\* JSON arrays of up to n of the given objects
ArrayPayloads(objects, n) ==
    {[kind |-> "array", items |-> a, truthy |-> a # << >>] : a \in SeqsUpTo(objects, n)}

\* the request raising (network failure, API error)
RaisedResponse ==
    [raises |-> TRUE, lead |-> FALSE, open |-> NoFence,
     payload |-> [kind |-> "badjson", items |-> << >>, truthy |-> FALSE],
     close |-> FALSE, trail |-> FALSE]

\* a response text
ResponseText(lead, open, payload, close, trail) ==
    [raises |-> FALSE, lead |-> lead, open |-> open, payload |-> payload,
     close |-> close, trail |-> trail]

\* the payload sent bare
Unfenced(payload) == ResponseText(FALSE, NoFence, payload, FALSE, FALSE)

\* str.strip(): the whitespace around the whole text goes
StripResponse(raw) == [raw EXCEPT !.lead = FALSE, !.trail = FALSE]

\* str.removeprefix of the tagged fence: only a fence that carries the tag is removed
RemovePrefixJson(raw) ==
    IF ~raw.lead /\ raw.open = FenceJson THEN [raw EXCEPT !.open = NoFence] ELSE raw

\* str.removesuffix of the fence
RemoveSuffix(raw) ==
    IF ~raw.trail /\ raw.close THEN [raw EXCEPT !.close = FALSE] ELSE raw

\* the value json.loads failed on
JsonError == [kind |-> "badjson", items |-> << >>, truthy |-> FALSE]

\* json.loads: whitespace around the value is accepted, a fence is not
JsonLoads(raw) ==
    IF raw.open # NoFence \/ raw.close THEN JsonError ELSE raw.payload

\* lines 237-239 and 191-193: strip, removeprefix, removesuffix, json.loads;
\* kind "raise" when the request raised
LoadResponse(raw) ==
    IF raw.raises THEN [kind |-> "raise", items |-> << >>, truthy |-> FALSE]
    ELSE JsonLoads(RemoveSuffix(RemovePrefixJson(StripResponse(raw))))

\* a payload inside a code fence: tagged, tagged with whitespace around the
\* text, without tag
Fenced(p) ==
    {ResponseText(FALSE, FenceJson, p, TRUE, FALSE),
     ResponseText(TRUE, FenceJson, p, TRUE, TRUE),
     ResponseText(FALSE, FencePlain, p, TRUE, FALSE)}

\* the responses to a request about n activities: the request raising, a
\* bare payload, an array of the expected length made of one object inside
\* a fence
GptResponses(n) ==
    {RaisedResponse}
    \cup {Unfenced(p) : p \in NonArrayPayloads \cup ArrayPayloads(ClassifierObjects, n + 1)}
    \cup UNION {Fenced(p) : p \in {q \in ArrayPayloads(ClassifierObjects, n) :
                                       /\ Len(q.items) = n
                                       /\ \A i \in 1..n : q.items[i] = q.items[1]}}

MergedKeys == {"start_datetime", "end_datetime", "csat"}

\* MergeOne with the local fields only filling the keys the classifier left out
\* (dict.setdefault instead of assignment)
MergeOne_SetDefault(local, remote) ==
    [k \in DictKeys |->
        IF Has(remote, k) THEN remote[k]
        ELSE IF k = "start_datetime" THEN Present(to_iso_local(Some(local.start_datetime)))
        ELSE IF k = "end_datetime" THEN Present(to_iso_local(local.end_datetime))
        ELSE IF k = "csat" THEN Present(local.csat)
        ELSE remote[k]]

\* lines 251-254: the classifier's object with the three local fields set
MergeOne(local, remote) ==
    [k \in DictKeys |->
        IF k = "start_datetime" THEN Present(to_iso_local(Some(local.start_datetime)))
        ELSE IF k = "end_datetime" THEN Present(to_iso_local(local.end_datetime))
        ELSE IF k = "csat" THEN Present(local.csat)
        ELSE remote[k]]

Min(a, b) == IF a < b THEN a ELSE b

\* MergeTasks without the length check: zip() pairs up to the shorter length
MergeTasks_Zip(parsed, resp) ==
    IF resp.kind # "array" THEN None
    ELSE Some([i \in 1..Min(Len(parsed), Len(resp.items)) |-> MergeOne(parsed[i], resp.items[i])])

\* MergeTasks tolerating surplus objects of the classifier
MergeTasks_DropExtra(parsed, resp) ==
    IF resp.kind # "array" THEN None
    ELSE IF Len(resp.items) < Len(parsed) THEN None
    ELSE Some([i \in 1..Len(parsed) |-> MergeOne(parsed[i], resp.items[i])])

\* lines 237-262: None, or the merged list
MergeTasks(parsed, resp) ==
    IF resp.kind # "array" THEN None
    ELSE IF Len(resp.items) # Len(parsed) THEN None
    ELSE Some([i \in 1..Len(parsed) |-> MergeOne(parsed[i], resp.items[i])])

(***************************************************************************)
(* save_tasks and create_notion_task.                                      *)
(***************************************************************************)
UserId == "u1"

\* save_tasks, lines 126-127: the user id is written into the caller's dicts
WithUser(tasks, user_id) ==
    [i \in 1..Len(tasks) |-> [tasks[i] EXCEPT !.user_id = Present(user_id)]]

WithUserId(tasks) == WithUser(tasks, UserId)

\* pd.read_csv on one row: every column of the file is there, a cell that
\* was written from a missing key or from None reads as NaN (None for the
\* optional fields, "nan" for the text fields)
ReadCsvRow(row) ==
    [k \in DictKeys |->
        IF Has(row, k) THEN row[k]
        ELSE IF k \in {"start_datetime", "end_datetime", "csat"} THEN Present(None)
        ELSE Present("nan")]

read_csv(csv) == [i \in 1..Len(csv) |-> ReadCsvRow(csv[i])]

\* save_tasks writing the new rows only (to_csv of df without pd.concat)
save_tasks_Overwrite(csv, tasks, user_id) == WithUser(tasks, user_id)

\* save_tasks, lines 126-135: the file read back, the new rows appended,
\* the whole written again
save_tasks(csv, tasks, user_id) == read_csv(csv) \o WithUser(tasks, user_id)

\* get_user_tasks, lines 144-146: the rows of the file with that user id
get_user_tasks(csv, user_id) ==
    SelectSeq(read_csv(csv), LAMBDA row : row.user_id = Present(user_id))

\* task_data.get(key) tested for truth: the key is held, its value is not
\* None, and a number is not 0
Truthy(task, key) ==
    /\ Has(task, key)
    /\ task[key][1] # None
    /\ (key = "csat" => task[key][1] # Some(0))

\* create_notion_task, lines 377-427: the properties of one record; a
\* property is set when the task's value is truthy
NotionProps(task) ==
    [k \in {"Name", "Start Date", "End Date", "type", "csat"} |->
        IF k = "Name" THEN task.name
        ELSE IF k = "type" THEN task.type
        ELSE IF k = "Start Date"
             THEN (IF Truthy(task, "start_datetime") THEN task.start_datetime ELSE Absent)
        ELSE IF k = "End Date"
             THEN (IF Truthy(task, "end_datetime") THEN task.end_datetime ELSE Absent)
        ELSE (IF Truthy(task, "csat") THEN task.csat ELSE Absent)]

(***************************************************************************)
(* Remote requests.  Every request is logged with what it carries: the     *)
(* prompt of a language-model request, the properties and content block of *)
(* a create-record request, and whether the request succeeded.             *)
(***************************************************************************)
Request(op, names, page_opts, prompt, props, children, ok) ==
    [op |-> op, names |-> names, page_opts |-> page_opts, prompt |-> prompt,
     props |-> props, children |-> children, ok |-> ok]

\* list_page_options: notion.databases.query; a failure is swallowed (line 43)
QueryTargets == Request("databases.query", << >>, << >>, None, None, None, TRUE)

(***************************************************************************)
(* The handlers outside the text pipelines before any update arrived.      *)
(***************************************************************************)
Users == {"u1", "u2"}

\* pomodoro.py line 16 and the empty MemoryStorage of bot.py line 50
NoTimers ==
    /\ timer_tasks = << >>
    /\ active_timers = [u \in Users |-> 0]
    /\ fsm_state = [u \in Users |-> "none"]
    /\ bot_answers = << >>
    /\ suspended = [u \in Users |-> 0]
    /\ last_update = None

TimersIdle == NoTimers /\ updates_left = 0

\* vocab.py line 24 and a vocab.csv without rows
VocabIdle ==
    /\ last_by_user = [u \in Users |-> None]
    /\ vocab_csv = << >>
    /\ vocab_answers = << >>

\* the connection types the handlers write (notion.py lines 68, 109, 151)
\* and the ones cmd_start reads (start.py lines 87-89)
ConnectionTypes ==
    {"NOTION_TOKEN", "NOTION_MAIN_DATABASE_ID", "NOTION_DATABASE_ID_1",
     "NOTION_DATABASE_ID", "NOTION_DATABASE_ID_2"}

\* csv_db.py lines 31-35: notion_connections.csv with its header only
ConnIdle ==
    /\ conn_csv = << >>
    /\ latest_saved = [k \in Users \X ConnectionTypes |-> None]
    /\ conn_got = None
    /\ dashboard = None

HandlersIdle == TimersIdle /\ VocabIdle /\ ConnIdle

(***************************************************************************)
(* handle_text (tasks.py lines 219-236): the routing of a text message.    *)
(* The letters m y s l i stand for the Cyrillic letters of the sentinel    *)
(* word, upper-case letters for their capitals.                            *)
(***************************************************************************)
Sentinel == <<"m", "y", "s", "l", "i">>

\* str.lower() on one character
LowerChar(c) ==
    CASE c = "M" -> "m" [] c = "Y" -> "y" [] c = "S" -> "s" [] c = "L" -> "l"
      [] c = "I" -> "i" [] c = "A" -> "a" [] c = "B" -> "b" [] c = "E" -> "e"
      [] c = "N" -> "n" [] c = "O" -> "o" [] c = "P" -> "p" [] OTHER -> c

lower(s) == [i \in 1..Len(s) |-> LowerChar(s[i])]

\* a line of whitespace only
IsBlank(line) == strip(line) = << >>

\* "\n".join(rest).strip(): blank lines at both ends go, the first line left
\* loses its leading and the last its trailing whitespace
RECURSIVE DropLeadingBlank(_)
DropLeadingBlank(ls) ==
    IF ls = << >> THEN << >>
    ELSE IF IsBlank(Head(ls)) THEN DropLeadingBlank(Tail(ls))
    ELSE ls

RECURSIVE DropTrailingBlank(_)
DropTrailingBlank(ls) ==
    IF ls = << >> THEN << >>
    ELSE IF IsBlank(Last(ls)) THEN DropTrailingBlank(SubSeq(ls, 1, Len(ls) - 1))
    ELSE ls

JoinStrip(ls) ==
    LET t == DropTrailingBlank(DropLeadingBlank(ls))
    IN  [i \in 1..Len(t) |->
            IF i = 1 /\ i = Len(t) THEN strip(t[i])
            ELSE IF i = 1 THEN lstrip(t[i])
            ELSE IF i = Len(t) THEN rstrip(t[i])
            ELSE t[i]]

\* lines 229-232: the first line, trimmed and lower-cased, is the sentinel
RouteToThoughts(t) == lower(strip(Head(t))) = Sentinel

\* line 229 unpacks splitlines() into first_line and the rest: a text without
\* any line raises ValueError, outside every try block
HandleText ==
    /\ pc = "recv"
    /\ IF text = << >>
       THEN /\ pc' = "raised"
            /\ UNCHANGED <<mode, thoughts_text>>
       ELSE IF RouteToThoughts(text)
       THEN /\ mode' = "thoughts"
            /\ thoughts_text' = JoinStrip(Tail(text))
            /\ pc' = "thoughts"
       ELSE /\ mode' = "tasks"
            /\ pc' = "start"
            /\ UNCHANGED thoughts_text
    /\ UNCHANGED <<text, timestamp, conn, task_date, parsed_tasks, gpt_raw, gpt_tasks,
                   thoughts_data, tasks_data, events, tasks_csv, notion_pages, answers,
                   returned>>
    /\ UNCHANGED store_vars
    /\ UNCHANGED handler_vars

(***************************************************************************)
(* The state machine of process_tasks for one message.                     *)
(***************************************************************************)
Connected == conn.token /\ conn.db

Finish(answer, value) ==
    /\ answers' = Append(answers, answer)
    /\ returned' = Some(value)
    /\ pc' = "done"

\* lines 129-187 up to the language-model request inside analyze_task_with_gpt
ProcessTasksBegin ==
    /\ pc = "start"
    /\ \E page_opts \in (IF Connected /\ conn.cat THEN PageOptions ELSE {<< >>}),
          a \in {AnalyzeLocal(text, timestamp)} :
         LET reads == IF Connected /\ conn.cat THEN <<QueryTargets>> ELSE << >>
         IN  /\ task_date' = a.task_date
             /\ parsed_tasks' = a.parsed
             /\ IF a.raised
                THEN /\ events' = events \o reads
                     /\ Finish("couldnt_analyze", FALSE)
                ELSE /\ events' = events \o reads \o
                            <<Request("chat.completions.create",
                                      TaskNames(a.parsed.tasks), page_opts,
                                      Some(build_prompt(TaskNames(a.parsed.tasks),
                                                        timestamp, page_opts)),
                                      None, None, TRUE)>>
                     /\ pc' = "gpt"
                     /\ UNCHANGED <<answers, returned>>
    /\ UNCHANGED <<text, timestamp, conn, gpt_raw, gpt_tasks, tasks_data, tasks_csv,
                   notion_pages>>
    /\ UNCHANGED thought_vars
    /\ UNCHANGED store_vars
    /\ UNCHANGED handler_vars

\* the response arrives: lines 237-262, then process_tasks lines 148-150 / 185-187
GptRespond ==
    /\ pc = "gpt"
    /\ \E raw \in GptResponses(Len(parsed_tasks.tasks)) :
         /\ gpt_raw' = raw
         /\ gpt_tasks' = LoadResponse(raw)
         /\ tasks_data' = MergeTasks(parsed_tasks.tasks, gpt_tasks')
         /\ IF tasks_data' = None \/ tasks_data' = Some(<< >>)
            THEN Finish("couldnt_analyze", FALSE)
            ELSE pc' = "save" /\ UNCHANGED <<answers, returned>>
    /\ UNCHANGED <<text, timestamp, conn, task_date, parsed_tasks, events, tasks_csv,
                   notion_pages>>
    /\ UNCHANGED thought_vars
    /\ UNCHANGED store_vars
    /\ UNCHANGED handler_vars

\* save_tasks and its report: lines 153-171 (not connected), 190-195 (connected)
SaveTasks ==
    /\ pc = "save"
    /\ tasks_data' = Some(WithUserId(tasks_data[1]))
    /\ \E ok \in BOOLEAN :
         IF ok
         THEN /\ tasks_csv' = save_tasks(tasks_csv, tasks_data[1], UserId)
              /\ IF Connected
                 THEN pc' = "notion" /\ UNCHANGED <<answers, returned>>
                 ELSE Finish("created_but_not_in_notion", FALSE)
         ELSE /\ tasks_csv' = tasks_csv
              /\ Finish(IF Connected THEN "couldnt_save_locally" ELSE "couldnt_get_tasks",
                        FALSE)
    /\ UNCHANGED <<text, timestamp, conn, task_date, parsed_tasks, gpt_raw, gpt_tasks,
                   events, notion_pages>>
    /\ UNCHANGED thought_vars
    /\ UNCHANGED store_vars
    /\ UNCHANGED handler_vars

\* the loop going on after a request that failed
CreateNotionTask_KeepGoing ==
    /\ pc = "notion"
    /\ LET tasks == tasks_data[1]
           n     == Len(tasks)
       IN  \E outcome \in [1..n -> BOOLEAN] :
             LET reqs == [i \in 1..n |->
                             Request("pages.create", <<tasks[i].name[1]>>, << >>, None,
                                     Some(NotionProps(tasks[i])), None, outcome[i])]
                 made == SelectSeq(reqs, LAMBDA r : r.ok)
             IN  /\ notion_pages' = notion_pages \o [i \in 1..Len(made) |-> made[i].props[1]]
                 /\ events' = events \o reqs
                 /\ IF \A i \in 1..n : outcome[i]
                    THEN Finish("created", TRUE)
                    ELSE Finish("saved_locally_but_not_in_notion", FALSE)
    /\ UNCHANGED <<text, timestamp, conn, task_date, parsed_tasks, gpt_raw, gpt_tasks,
                   tasks_data, tasks_csv>>
    /\ UNCHANGED thought_vars
    /\ UNCHANGED store_vars
    /\ UNCHANGED handler_vars

\* create_notion_task and its report: lines 198-212; the first k requests
\* succeed, the next one raises and ends the loop
CreateNotionTask ==
    /\ pc = "notion"
    /\ LET tasks == tasks_data[1]
           n     == Len(tasks)
           req(i, ok) == Request("pages.create", <<tasks[i].name[1]>>, << >>, None,
                                 Some(NotionProps(tasks[i])), None, ok)
       IN  \E k \in 0..n :
             /\ notion_pages' = notion_pages \o [i \in 1..k |-> NotionProps(tasks[i])]
             /\ events' = events \o [i \in 1..(IF k < n THEN k + 1 ELSE n) |-> req(i, i <= k)]
             /\ IF k = n
                THEN Finish("created", TRUE)
                ELSE Finish("saved_locally_but_not_in_notion", FALSE)
    /\ UNCHANGED <<text, timestamp, conn, task_date, parsed_tasks, gpt_raw, gpt_tasks,
                   tasks_data, tasks_csv>>
    /\ UNCHANGED thought_vars
    /\ UNCHANGED store_vars
    /\ UNCHANGED handler_vars

(***************************************************************************)
(* The thought pipeline: process_thoughts (tasks.py lines 68-124),         *)
(* analyze_thoughts_with_gpt (utils.py lines 169-197), create_notion_      *)
(* thought (utils.py lines 325-369).                                       *)
(***************************************************************************)
\* a dict of an idea is a record over IdeaKeys
IdeaKeys == {"name", "sphere_page_id", "sphere_text"}

\* ideas the classifier may return: with a target of the workspace, without
ThoughtObjects ==
    {[name |-> Present("t1"), sphere_page_id |-> Present("p1"), sphere_text |-> Absent],
     [name |-> Present("t2"), sphere_page_id |-> Absent, sphere_text |-> Absent]}

\* the fixed status of a thought record; the leading word stands for its
\* Cyrillic spelling in the source (line 351)
ThoughtStatus == "pomyslitChatGPT"

\* datetime.now(tz=TZ_MOSCOW): the clock read in the zone
MoscowNow(ts) ==
    LET m == ts.hh * 60 + ts.mm + MoscowUtcOffset - ts.utcoff
        w == (m + 1440) % 1440
    IN  [date |-> TimestampDate(ts), hh |-> w \div 60, mm |-> w % 60]

\* THOUGHT_ANALYSIS_PROMPT.format(...): the three values filled in
ThoughtPrompt(thoughts, ts, page_opts) ==
    [thoughts |-> thoughts, timestamp |-> MoscowNow(ts), sphere_block |-> page_opts]

\* the responses to a thought request
ThoughtResponses ==
    {RaisedResponse}
    \cup {Unfenced(p) : p \in NonArrayPayloads \cup ArrayPayloads(ThoughtObjects, MaxIdeas)}
    \cup UNION {Fenced(p) : p \in {q \in ArrayPayloads(ThoughtObjects, 1) : q.items # << >>}}

\* analyze_thoughts_with_gpt, lines 191-197: whatever json.loads returns is
\* returned (JSON null loads as None); an exception gives None
analyze_thoughts(raw) ==
    LET v == LoadResponse(raw)
    IN  IF v.kind \in {"raise", "badjson", "null"} THEN None ELSE Some(v)

\* "not thoughts_data" (line 95)
Falsy(data) == data = None \/ ~data[1].truthy

\* iterating the value and reading idea["name"] works for an array of objects
\* only: a number is not iterable, an object or a string yields strings
Iterable(data) == data[1].kind = "array"

\* create_notion_thought, lines 348-358: the properties of one record
ThoughtProps(idea, now_iso) ==
    [Name   |-> idea.name[1],
     Date   |-> now_iso,
     Status |-> ThoughtStatus,
     Sphere |-> IF Has(idea, "sphere_page_id") THEN <<"relation", idea.sphere_page_id[1]>>
                ELSE IF Has(idea, "sphere_text") THEN <<"rich_text", idea.sphere_text[1]>>
                ELSE << >>]

\* the loop leaving at the first request that fails
ThoughtRequests_StopAtFailure(ideas, raw_text, now_iso, outcome) ==
    LET n    == Len(ideas)
        bad  == {i \in 1..n : ~outcome[i]}
        last == IF bad = {} THEN n ELSE CHOOSE i \in bad : \A j \in bad : i <= j
    IN  [i \in 1..last |->
            Request("pages.create", <<ideas[i].name[1]>>, << >>, None,
                    Some(ThoughtProps(ideas[i], now_iso)), Some(raw_text), outcome[i])]

\* create_notion_thought, lines 347-368: one pages.create per idea, each with
\* the raw text as its content block; outcome[i] tells whether request i
\* succeeded, a failure is logged and the loop goes on
ThoughtRequests(ideas, raw_text, now_iso, outcome) ==
    [i \in 1..Len(ideas) |->
        Request("pages.create", <<ideas[i].name[1]>>, << >>, None,
                Some(ThoughtProps(ideas[i], now_iso)), Some(raw_text), outcome[i])]

ThoughtsConnected == conn.token /\ conn.tdb

\* lines 77-93 up to the language-model request
ProcessThoughtsBegin ==
    /\ pc = "thoughts"
    /\ \E page_opts \in (IF conn.token /\ conn.cat THEN PageOptions ELSE {<< >>}) :
         events' = events
                   \o (IF conn.token /\ conn.cat THEN <<QueryTargets>> ELSE << >>)
                   \o <<Request("chat.completions.create", << >>, page_opts,
                                Some(ThoughtPrompt(thoughts_text, timestamp, page_opts)),
                                None, None, TRUE)>>
    /\ pc' = "tgpt"
    /\ UNCHANGED <<text, timestamp, conn, task_date, parsed_tasks, gpt_raw, gpt_tasks,
                   tasks_data, tasks_csv, notion_pages, answers, returned>>
    /\ UNCHANGED thought_vars
    /\ UNCHANGED store_vars
    /\ UNCHANGED handler_vars

\* the response arrives: lines 191-197, then process_thoughts lines 95-119.
\* Without workspace connection the reply is built at once; building it
\* from a value that is no array of objects raises (caught at line 121).
ThoughtsRespond ==
    /\ pc = "tgpt"
    /\ \E raw \in ThoughtResponses :
         /\ gpt_raw' = raw
         /\ thoughts_data' = analyze_thoughts(raw)
         /\ IF Falsy(thoughts_data')
            THEN Finish("couldnt_parse_thoughts", FALSE)
            ELSE IF ThoughtsConnected
            THEN pc' = "tnotion" /\ UNCHANGED <<answers, returned>>
            ELSE IF Iterable(thoughts_data')
            THEN Finish("thoughts_saved_locally", TRUE)
            ELSE Finish("thoughts_error", FALSE)
    /\ UNCHANGED <<text, timestamp, conn, task_date, parsed_tasks, gpt_tasks, mode,
                   thoughts_text, tasks_data, events, tasks_csv, notion_pages>>
    /\ UNCHANGED store_vars
    /\ UNCHANGED handler_vars

\* create_notion_thought and its report: lines 102-119.  Every idea gets its
\* request; outcome[i] tells whether request i succeeded.
CreateNotionThought ==
    /\ pc = "tnotion"
    /\ IF ~Iterable(thoughts_data)
       THEN /\ Finish("thoughts_error", FALSE)
            /\ UNCHANGED <<events, notion_pages>>
       ELSE \E outcome \in [1..Len(thoughts_data[1].items) -> BOOLEAN] :
              LET reqs == ThoughtRequests(thoughts_data[1].items, thoughts_text,
                                          MoscowNow(timestamp), outcome)
              IN  /\ events' = events \o reqs
                  /\ notion_pages' = notion_pages \o SelectSeq(reqs, LAMBDA r : r.ok)
                  /\ IF \A i \in 1..Len(reqs) : reqs[i].ok
                     THEN Finish("thoughts_saved", TRUE)
                     ELSE Finish("thoughts_not_in_notion", FALSE)
    /\ UNCHANGED <<text, timestamp, conn, task_date, parsed_tasks, gpt_raw, gpt_tasks,
                   tasks_data, tasks_csv>>
    /\ UNCHANGED thought_vars
    /\ UNCHANGED store_vars
    /\ UNCHANGED handler_vars

(***************************************************************************)
(* Messages and the specification of one message being handled.            *)
(***************************************************************************)
\* first lines that are the sentinel word, plain and with capital and spaces
SentinelLines ==
    {Sentinel,
     <<" ", "M", "y", "s", "l", "i", " ">>}                     \* ' Mysli '

\* what follows the sentinel line
ThoughtBodies ==
    {<< >>,
     << <<"i", "d", "e", "a">> >>,                              \* 'idea'
     << <<" ">>, <<" ", "i", "d", "e", "a">>, << >> >>}         \* ' ', ' idea', ''

\* thought messages, and a message whose sentinel follows a blank line
ThoughtTexts ==
    {<<s>> \o b : s \in SentinelLines, b \in ThoughtBodies}
    \cup {<< << >>, Sentinel, <<"i", "d", "e", "a">> >>}

\* messages: up to MaxBatch lines, or a date line and up to MaxDatedBatch lines,
\* or a thought message
Texts ==
    SeqsUpTo(TaskLines, MaxBatch)
    \cup {<<d>> \o ls : d \in DateLines, ls \in SeqsUpTo(TaskLines, MaxDatedBatch)}
    \cup ThoughtTexts

NoResponse == [kind |-> "none", items |-> << >>, truthy |-> FALSE]

Init ==
    /\ text \in Texts
    /\ timestamp \in SampleTimestamps
    /\ conn \in Connections
    /\ pc = "recv"
    /\ mode = "none"
    /\ thoughts_text = << >>
    /\ thoughts_data = None
    /\ invocations = << >>
    /\ saved_log = << >>
    /\ user_tasks = None
    /\ task_date = None
    /\ parsed_tasks = NotParsed
    /\ gpt_raw = RaisedResponse
    /\ gpt_tasks = NoResponse
    /\ tasks_data = None
    /\ events = << >>
    /\ tasks_csv = << >>
    /\ notion_pages = << >>
    /\ answers = << >>
    /\ returned = None
    /\ HandlersIdle

Next ==
    \/ HandleText
    \/ ProcessTasksBegin \/ GptRespond \/ SaveTasks \/ CreateNotionTask
    \/ ProcessThoughtsBegin \/ ThoughtsRespond \/ CreateNotionThought

Spec == Init /\ [][Next]_vars

(***************************************************************************)
(* _parse_activity_lines on its own: the lines and the batch date are      *)
(* drawn from the samples, the action applies the function.                *)
(***************************************************************************)
ParseInputs ==
    SeqsUpTo(SampleLines, MaxLines)
    \cup {<<CsatLine(toks)>> : toks \in SeqsUpTo(CsatTokens, MaxTokens) \ {<< >>}}

InitParse ==
    /\ text \in ParseInputs
    /\ task_date \in {Some(d) : d \in SampleDays}
    /\ timestamp = [date |-> D(2024, 3, 5), hh |-> 22, mm |-> 0, utcoff |-> 180]
    /\ conn = [token |-> FALSE, db |-> FALSE, cat |-> FALSE]
    /\ pc = "parse"
    /\ mode = "tasks"
    /\ thoughts_text = << >>
    /\ thoughts_data = None
    /\ invocations = << >>
    /\ saved_log = << >>
    /\ user_tasks = None
    /\ parsed_tasks = NotParsed
    /\ gpt_raw = RaisedResponse
    /\ gpt_tasks = NoResponse
    /\ tasks_data = None
    /\ events = << >>
    /\ tasks_csv = << >>
    /\ notion_pages = << >>
    /\ answers = << >>
    /\ returned = None
    /\ HandlersIdle

ParseActivityLines ==
    /\ pc = "parse"
    /\ parsed_tasks' = parse_activity_lines(text, task_date[1])
    /\ pc' = "parsed"
    /\ UNCHANGED <<text, timestamp, conn, task_date, gpt_raw, gpt_tasks, tasks_data,
                   events, tasks_csv, notion_pages, answers, returned>>
    /\ UNCHANGED thought_vars
    /\ UNCHANGED store_vars
    /\ UNCHANGED handler_vars

NextParse == ParseActivityLines

SpecParse == InitParse /\ [][NextParse]_vars

(***************************************************************************)
(* The flat-file task store shared by the invocations of the pipeline      *)
(* (csv_db.py lines 123-149).  The handlers run in one event loop and      *)
(* save_tasks and get_user_tasks are plain functions without any await: a  *)
(* call runs from its first line to its last without another handler in    *)
(* between, so the invocations interleave call by call.                    *)
(***************************************************************************)
\* merged tasks as analyze_task_with_gpt returns them: with csat, without
StoreRows ==
    {[name |-> Present("n1"), type |-> Present("ChatGPTactivity"),
      start_datetime |-> Present(Some([date |-> D(2024, 3, 5), hh |-> 9, mm |-> 0, ss |-> 0,
                                       utcoff |-> MoscowUtcOffset])),
      end_datetime |-> Present(None), csat |-> Present(Some(7)), user_id |-> Absent],
     [name |-> Present("n2"), type |-> Absent,
      start_datetime |-> Present(Some([date |-> D(2024, 3, 5), hh |-> 10, mm |-> 0, ss |-> 0,
                                       utcoff |-> MoscowUtcOffset])),
      end_datetime |-> Present(None), csat |-> Present(None), user_id |-> Absent]}

\* the batches the invocations save: the task without csat alone, and the
\* task with csat followed by the one without
StoreBatches ==
    {b \in SeqsUpTo(StoreRows, 2) :
        /\ b # << >>
        /\ Last(b).csat = Present(None)
        /\ Len(b) = 2 => b[1].csat # Present(None)}

InitStore ==
    /\ invocations \in [1..MaxInvocations ->
                          {[user |-> u, batch |-> b, pc |-> "ready"] :
                             u \in Users, b \in StoreBatches}]
    /\ saved_log = << >>
    /\ user_tasks = None
    /\ tasks_csv = << >>
    /\ text = << >>
    /\ timestamp = [date |-> D(2024, 3, 5), hh |-> 22, mm |-> 0, utcoff |-> 180]
    /\ conn = [token |-> FALSE, db |-> FALSE, cat |-> FALSE, tdb |-> FALSE]
    /\ pc = "store"
    /\ mode = "tasks"
    /\ thoughts_text = << >>
    /\ thoughts_data = None
    /\ task_date = None
    /\ parsed_tasks = NotParsed
    /\ gpt_raw = RaisedResponse
    /\ gpt_tasks = NoResponse
    /\ tasks_data = None
    /\ events = << >>
    /\ notion_pages = << >>
    /\ answers = << >>
    /\ returned = None
    /\ HandlersIdle

\* one invocation calls save_tasks; the call fails (nothing written) or succeeds
StoreSave ==
    /\ \E i \in 1..MaxInvocations, ok \in BOOLEAN :
         /\ invocations[i].pc = "ready"
         /\ IF ok
            THEN /\ tasks_csv' = save_tasks(tasks_csv, invocations[i].batch,
                                            invocations[i].user)
                 /\ saved_log' = Append(saved_log,
                                        [user |-> invocations[i].user,
                                         rows |-> invocations[i].batch])
                 /\ invocations' = [invocations EXCEPT ![i].pc = "saved"]
            ELSE /\ invocations' = [invocations EXCEPT ![i].pc = "failed"]
                 /\ UNCHANGED <<tasks_csv, saved_log>>
    /\ UNCHANGED <<text, timestamp, conn, pc, task_date, parsed_tasks, gpt_raw, gpt_tasks,
                   tasks_data, events, notion_pages, answers, returned, user_tasks>>
    /\ UNCHANGED thought_vars
    /\ UNCHANGED handler_vars

\* get_user_tasks is called for some user
StoreRead ==
    /\ \E u \in Users : user_tasks' = Some([user |-> u, rows |-> get_user_tasks(tasks_csv, u)])
    /\ UNCHANGED <<text, timestamp, conn, pc, task_date, parsed_tasks, gpt_raw, gpt_tasks,
                   tasks_data, events, tasks_csv, notion_pages, answers, returned,
                   invocations, saved_log>>
    /\ UNCHANGED thought_vars
    /\ UNCHANGED handler_vars

NextStore == StoreSave \/ StoreRead

SpecStore == InitStore /\ [][NextStore]_vars

(***************************************************************************)
(* handlers/pomodoro.py: the timers.  Every user talks to the bot in a     *)
(* private chat, so the FSM state is kept per user.  The dispatcher runs   *)
(* each update as a task of one event loop: code between two awaits is one *)
(* step, and a timer or another handler may run while a handler waits in   *)
(* message.answer.  Sending a message is taken to succeed.                 *)
(***************************************************************************)
MaxUpdates == 3

\* line 94: a notification every 600 seconds
NotifyEvery == 600

\* the text of no core message while the timers are checked
CoreIdle ==
    /\ text = << >>
    /\ timestamp = [date |-> D(2024, 3, 5), hh |-> 22, mm |-> 0, utcoff |-> 180]
    /\ conn = [token |-> FALSE, db |-> FALSE, cat |-> FALSE, tdb |-> FALSE]
    /\ pc = "idle"
    /\ mode = "none"
    /\ thoughts_text = << >>
    /\ thoughts_data = None
    /\ invocations = << >>
    /\ saved_log = << >>
    /\ user_tasks = None
    /\ task_date = None
    /\ parsed_tasks = NotParsed
    /\ gpt_raw = RaisedResponse
    /\ gpt_tasks = NoResponse
    /\ tasks_data = None
    /\ events = << >>
    /\ tasks_csv = << >>
    /\ notion_pages = << >>
    /\ answers = << >>
    /\ returned = None

\* the length of the first word of a text that starts with a non-space
WordLen(t) ==
    IF \E i \in 1..Len(t) : IsSpace(t[i])
    THEN (CHOOSE i \in 1..Len(t) : IsSpace(t[i]) /\ \A j \in 1..(i - 1) : ~IsSpace(t[j])) - 1
    ELSE Len(t)

\* str.split(): the words between runs of whitespace
RECURSIVE split(_)
split(s) ==
    LET t == lstrip(s)
    IN  IF t = << >> THEN << >>
        ELSE <<SubSeq(t, 1, WordLen(t))>> \o split(SubSeq(t, WordLen(t) + 1, Len(t)))

CmdPomodoro == <<"/", "p", "o", "m", "o", "d", "o", "r", "o">>

CmdStart == <<"/", "s", "t", "a", "r", "t">>

CmdConnectNotion ==
    <<"/", "c", "o", "n", "n", "e", "c", "t", "_", "n", "o", "t", "i", "o", "n">>

CmdConnectNotionTable ==
    <<"/", "c", "o", "n", "n", "e", "c", "t", "_", "n", "o", "t", "i", "o", "n">> \o
    <<"_", "t", "a", "b", "l", "e">>

CmdConnectNotionCategoryTable ==
    <<"/", "c", "o", "n", "n", "e", "c", "t", "_", "n", "o", "t", "i", "o", "n">> \o
    <<"_", "c", "a", "t", "e", "g", "o", "r", "y", "_", "t", "a", "b", "l", "e">>

CmdStop == <<"/", "s", "t", "o", "p">>

Yes == <<"y", "e", "s">>

No == <<"n", "o">>

\* the texts the users send while the timers are checked
PomodoroTexts ==
    { CmdPomodoro \o <<" ", "1", "0", " ", "5">>,
      CmdPomodoro \o <<" ", "5">>,
      CmdPomodoro \o <<" ", "0", " ", "5">>,
      CmdStop,
      Yes, <<"Y", "e", "s">>, No }

\* Command(name): the first word of the text is the command
IsCommand(t, name) == split(t) # << >> /\ Head(split(t)) = name

\* int(word): the value, or None where int raises ValueError
ParseMinutes(word) == IF isdigit(word) THEN Some(int(word)) ELSE None

\* asyncio.Task.done()
Done(task) == task.at \in {"returned_true", "returned_false", "cancelled"}

\* lines 160 and 207 without their test: no timer counts as active
Busy_Never(u) == FALSE

\* lines 160 and 207: the user has a timer task that is not done
Busy(u) == active_timers[u] # 0 /\ ~Done(timer_tasks[active_timers[u]])

\* asyncio.create_task(run_timer(message, duration, phase, state))
NewTimer(u, t, phase, duration) ==
    [user |-> u, message |-> t, phase |-> phase, duration |-> duration,
     total_seconds |-> duration,
     last_notification |-> duration, at |-> "created", must_cancel |-> FALSE,
     stopped |-> FALSE]

Answer(u, msg, task) == [user |-> u, text |-> msg, task |-> task]

\* a handler sent its answer and waits before its state.clear()
AnswerThenClear(u, msg) ==
    /\ bot_answers' = Append(bot_answers, Answer(u, msg, 0))
    /\ suspended' = [suspended EXCEPT ![u] = @ + 1]
    /\ UNCHANGED <<timer_tasks, active_timers, fsm_state>>

\* a handler sent its answer and returned
AnswerOnly(u, msg) ==
    /\ bot_answers' = Append(bot_answers, Answer(u, msg, 0))
    /\ UNCHANGED <<timer_tasks, active_timers, fsm_state, suspended>>

\* lines 165-168 and 186-189: the task is created and registered
StartTimer(u, t, phase, duration) ==
    /\ timer_tasks' = Append(timer_tasks, NewTimer(u, t, phase, duration))
    /\ active_timers' = [active_timers EXCEPT ![u] = Len(timer_tasks) + 1]
    /\ UNCHANGED <<fsm_state, bot_answers, suspended>>

\* lines 129-172
cmd_pomodoro(u, t) ==
    LET args == split(t)
    IN  IF Len(args) # 3
        THEN AnswerOnly(u, "invalid_format")
        ELSE IF \/ ParseMinutes(args[2]) = None
                \/ ParseMinutes(args[3]) = None
                \/ ParseMinutes(args[2])[1] <= 0
                \/ ParseMinutes(args[3])[1] <= 0
        THEN AnswerOnly(u, "invalid_time")
        ELSE IF Busy(u)
        THEN AnswerOnly(u, "already_active")
        ELSE StartTimer(u, t, "work", ParseMinutes(args[2])[1] * 60)

\* lines 175-200: the rest time is read from the words of the confirmation
\* itself; args[2] of a text without a third word raises IndexError
handle_rest_confirmation(u, t) ==
    IF lower(t) = Yes
    THEN LET args == split(t)
         IN  IF Len(args) < 3 \/ ParseMinutes(args[3]) = None
             THEN AnswerThenClear(u, "went_wrong")
             ELSE StartTimer(u, t, "rest", ParseMinutes(args[3])[1] * 60)
    ELSE AnswerThenClear(u, "session_completed")

\* lines 203-216 without the cancel() of line 208
cmd_stop_NoCancel(u) ==
    IF Busy(u)
    THEN /\ timer_tasks' = [timer_tasks EXCEPT ![active_timers[u]].stopped = TRUE]
         /\ bot_answers' = Append(bot_answers, Answer(u, "timer_stopped", 0))
         /\ suspended' = [suspended EXCEPT ![u] = @ + 1]
         /\ UNCHANGED <<active_timers, fsm_state>>
    ELSE /\ bot_answers' = Append(bot_answers, Answer(u, "no_active_timer", 0))
         /\ UNCHANGED <<timer_tasks, active_timers, fsm_state, suspended>>

\* lines 203-216: cancel() asks for the cancellation, the task sees it when
\* it runs next
cmd_stop(u) ==
    IF Busy(u)
    THEN /\ timer_tasks' = [timer_tasks EXCEPT ![active_timers[u]].must_cancel = TRUE,
                                               ![active_timers[u]].stopped = TRUE]
         /\ bot_answers' = Append(bot_answers, Answer(u, "timer_stopped", 0))
         /\ suspended' = [suspended EXCEPT ![u] = @ + 1]
         /\ UNCHANGED <<active_timers, fsm_state>>
    ELSE AnswerOnly(u, "no_active_timer")

\* tasks.py line 219: ~F.text.startswith("/")
StartsWithSlash(t) == t # << >> /\ Head(t) = "/"

\* str.casefold() on the letters of the model
casefold(t) == lower(t)

\* vocab.py line 201: the follow-up text, its Cyrillic letters transliterated
NotUnderstood == <<"n", "e", " ", "p", "o", "n", "y", "a", "l">>

\* the handler the routers give a text message to: the routers are asked in
\* the order of bot.py lines 55-62, the handlers of a router in the order
\* of their definition, and the first whose filter passes takes the update
HandlerOf(u, t) ==
    IF IsCommand(t, CmdStart) THEN "cmd_start"
    ELSE IF IsCommand(t, CmdConnectNotion) THEN "cmd_connect_notion"
    ELSE IF IsCommand(t, CmdConnectNotionTable) THEN "cmd_connect_notion_table"
    ELSE IF IsCommand(t, CmdConnectNotionCategoryTable)
    THEN "cmd_connect_notion_category_table"
    ELSE IF IsCommand(t, CmdPomodoro) THEN "cmd_pomodoro"
    ELSE IF fsm_state[u] = "waiting_for_rest" /\ lower(t) \in {Yes, No}
    THEN "handle_rest_confirmation"
    ELSE IF IsCommand(t, CmdStop) THEN "cmd_stop"
    ELSE IF ~StartsWithSlash(t) THEN "tasks.handle_text"
    ELSE IF casefold(t) = NotUnderstood THEN "handle_not_understood"
    ELSE "vocab.handle_text"

\* an update arrives and its handler runs up to its first await
TimerUpdate ==
    /\ updates_left > 0
    /\ updates_left' = updates_left - 1
    /\ \E u \in Users, t \in PomodoroTexts :
         /\ last_update' = Some([user |-> u, text |-> t, handler |-> HandlerOf(u, t)])
         /\ CASE HandlerOf(u, t) = "cmd_pomodoro" -> cmd_pomodoro(u, t)
              [] HandlerOf(u, t) = "handle_rest_confirmation" -> handle_rest_confirmation(u, t)
              [] HandlerOf(u, t) = "cmd_stop" -> cmd_stop(u)
              [] OTHER -> UNCHANGED <<timer_tasks, active_timers, fsm_state, bot_answers,
                                      suspended>>
    /\ UNCHANGED <<core_vars, vocab_vars, conn_vars>>

\* a suspended handler resumes: await state.clear() (lines 195, 200, 210)
HandlerResume ==
    /\ \E u \in Users :
         /\ suspended[u] > 0
         /\ suspended' = [suspended EXCEPT ![u] = @ - 1]
         /\ fsm_state' = [fsm_state EXCEPT ![u] = "none"]
    /\ UNCHANGED <<timer_tasks, active_timers, bot_answers, last_update, updates_left>>
    /\ UNCHANGED <<core_vars, vocab_vars, conn_vars>>

\* lines 98-110: the announcement of a finished phase
Announcement(phase) == IF phase = "work" THEN "work_over" ELSE "session_completed"

\* the task after the while test of line 88: another sleep, or the
\* announcement of lines 99-110
AfterLoopTest(task, i) ==
    IF task.total_seconds > 0
    THEN [task |-> [task EXCEPT !.at = "sleep"], sent |-> << >>]
    ELSE [task |-> [task EXCEPT !.at = "finish"],
          sent |-> <<Answer(task.user, Announcement(task.phase), i)>>]

\* total_seconds when the sleeps of lines 88-91 next reach line 95 or the end
\* of the loop
NextEvent(task) ==
    IF task.last_notification - NotifyEvery > 0
    THEN task.last_notification - NotifyEvery
    ELSE 0

\* one step of run_timer (lines 70-126): from one await to the next
RunTimerStep(task, i) ==
    IF task.must_cancel
    THEN \* CancelledError is raised at the await the task is suspended in
         IF task.at = "created"
         THEN [task |-> [task EXCEPT !.at = "cancelled", !.must_cancel = FALSE],
               sent |-> << >>, fsm |-> None]
         ELSE IF task.at = "stopping"
         THEN [task |-> [task EXCEPT !.at = "cancelled", !.must_cancel = FALSE],
               sent |-> << >>, fsm |-> None]
         ELSE [task |-> [task EXCEPT !.at = "stopping", !.must_cancel = FALSE],
               sent |-> <<Answer(task.user, "timer_stopped", i)>>, fsm |-> None]
    ELSE CASE task.at = "created" ->
                [task |-> [task EXCEPT !.at = "starting"],
                 sent |-> <<Answer(task.user, "starting", i)>>, fsm |-> None]
           [] task.at = "starting" ->
                AfterLoopTest(task, i) @@ [fsm |-> None]
           [] task.at = "sleep" ->
                LET slept == [task EXCEPT !.total_seconds = NextEvent(task)]
                IN  IF slept.last_notification - slept.total_seconds >= NotifyEvery
                    THEN [task |-> [slept EXCEPT !.at = "notify"],
                          sent |-> <<Answer(task.user, "time_left", i)>>, fsm |-> None]
                    ELSE AfterLoopTest(slept, i) @@ [fsm |-> None]
           [] task.at = "notify" ->
                AfterLoopTest([task EXCEPT !.last_notification = task.total_seconds], i)
                  @@ [fsm |-> None]
           [] task.at = "finish" ->
                [task |-> [task EXCEPT !.at = "returned_true"], sent |-> << >>,
                 fsm |-> Some(IF task.phase = "work" THEN "waiting_for_rest" ELSE "none")]
           [] task.at = "stopping" ->
                [task |-> [task EXCEPT !.at = "returned_false"], sent |-> << >>,
                 fsm |-> Some("none")]

\* the event loop runs a timer task up to its next await
TimerStep ==
    /\ \E i \in 1..Len(timer_tasks) :
         /\ ~Done(timer_tasks[i])
         /\ \E r \in {RunTimerStep(timer_tasks[i], i)} :
              /\ timer_tasks' = [timer_tasks EXCEPT ![i] = r.task]
              /\ bot_answers' = bot_answers \o r.sent
              /\ fsm_state' = IF r.fsm = None THEN fsm_state
                              ELSE [fsm_state EXCEPT ![timer_tasks[i].user] = r.fsm[1]]
    /\ UNCHANGED <<active_timers, suspended, last_update, updates_left>>
    /\ UNCHANGED <<core_vars, vocab_vars, conn_vars>>

InitTimer ==
    /\ CoreIdle
    /\ NoTimers
    /\ updates_left = MaxUpdates
    /\ VocabIdle
    /\ ConnIdle

NextTimer == TimerUpdate \/ HandlerResume \/ TimerStep

SpecTimer == InitTimer /\ [][NextTimer]_vars

(***************************************************************************)
(* handlers/vocab.py: the vocabulary entries.  The handlers change the     *)
(* cache and the file without an await in between, so each runs as one     *)
(* step.  The creation time of a row is left out.                          *)
(***************************************************************************)
\* the position of the first "|" of a text, 0 when there is none
IndexOfBar(t) ==
    IF \E i \in 1..Len(t) : t[i] = "|"
    THEN CHOOSE i \in 1..Len(t) : t[i] = "|" /\ \A j \in 1..(i - 1) : t[j] # "|"
    ELSE 0

IsQuote(c) == c \in {"'", "dq"}

\* line 196: the first stretch of at least one character between two quote
\* characters, stripped; empty when there is none
QuotedPhrase(t) ==
    LET opens == {i \in 1..Len(t) : IsQuote(t[i]) /\ \E j \in (i + 2)..Len(t) : IsQuote(t[j])}
    IN  IF opens = {} THEN << >>
        ELSE LET i == CHOOSE a \in opens : \A b \in opens : a <= b
                 j == CHOOSE a \in (i + 2)..Len(t) :
                        IsQuote(t[a]) /\ \A b \in (i + 2)..(a - 1) : ~IsQuote(t[b])
             IN  strip(SubSeq(t, i + 1, j - 1))

\* lines 186-199
parse_text_input(t) ==
    IF IndexOfBar(t) > 0
    THEN [phrase |-> strip(SubSeq(t, 1, IndexOfBar(t) - 1)),
          context |-> strip(SubSeq(t, IndexOfBar(t) + 1, Len(t)))]
    ELSE [phrase |-> QuotedPhrase(t), context |-> strip(t)]

\* VocabEntry (lines 26-33) without created_at
VocabEntry(phrase, context, en, ru) ==
    [phrase |-> phrase, context |-> context, explain_en_phrase |-> en.phrase,
     explain_en_context |-> en.context, explain_ru |-> ru]

\* what the model answers to _explain_in_russian: a text about the phrase
\* and the context of the request
ExplainRu(phrase, context) == <<"r", "u", ":">> \o phrase \o <<"|">> \o context

VocabAnswer(u, kind, body) == [user |-> u, kind |-> kind, body |-> body]

\* the ways the remote calls of one vocabulary handler can go: what the
\* image extraction returns, what _explain_in_english returns, and whether
\* the explaining call raises
VocabOutcomes ==
    [extract : {[phrase |-> <<"w">>, context |-> <<"c", "w">>],
                [phrase |-> << >>, context |-> << >>]},
     en : {[phrase |-> <<"e">>, context |-> <<"x">>]},
     raises : BOOLEAN]

\* lines 225-243 and 257-275: the entry is appended to the file, cached for
\* the user and shown
StoreEntry(u, phrase, context, o) ==
    /\ vocab_csv' = Append(vocab_csv, VocabEntry(phrase, context, o.en, << >>))
    /\ last_by_user' = [last_by_user EXCEPT ![u] = Some(VocabEntry(phrase, context, o.en, << >>))]
    /\ vocab_answers' = Append(vocab_answers, VocabAnswer(u, "entry", phrase))

VocabReply(u, kind) ==
    /\ vocab_answers' = Append(vocab_answers, VocabAnswer(u, kind, << >>))
    /\ UNCHANGED <<last_by_user, vocab_csv>>

\* lines 212-241: every exception ends in an error message
handle_photo(u, o) ==
    IF o.extract.phrase = << >> \/ o.extract.context = << >>
    THEN VocabReply(u, "cannot_extract")
    ELSE IF o.raises
    THEN VocabReply(u, "photo_error")
    ELSE StoreEntry(u, o.extract.phrase, o.extract.context, o)

\* lines 243-275: an exception of _explain_in_english leaves the handler
vocab_handle_text(u, t, o) ==
    LET parsed == parse_text_input(strip(t))
        phrase == IF parsed.phrase = << >> THEN <<"mdash">> ELSE parsed.phrase
    IN  IF parsed.context = << >>
        THEN VocabReply(u, "send_photo_or_text")
        ELSE IF o.raises
        THEN UNCHANGED vocab_vars
        ELSE StoreEntry(u, phrase, parsed.context, o)

\* lines 62-78: the cached entry with explain_ru filled
UpdatedEntry(last, ru) == [last EXCEPT !.explain_ru = ru]

\* lines 201-210 with _update_last_ru (lines 62-78)
handle_not_understood(u, o) ==
    IF last_by_user[u] = None
    THEN VocabReply(u, "no_last")
    ELSE IF o.raises
    THEN UNCHANGED vocab_vars
    ELSE LET last == last_by_user[u][1]
             ru == ExplainRu(last.phrase, last.context)
         IN  /\ vocab_csv' = Append(vocab_csv, UpdatedEntry(last, ru))
             /\ last_by_user' = [last_by_user EXCEPT ![u] = Some(UpdatedEntry(last, ru))]
             /\ vocab_answers' = Append(vocab_answers, VocabAnswer(u, "explain_ru", ru))

\* the messages the users send while the vocabulary is checked: a photo, the
\* follow-up in two letter cases, and texts with and without a leading "/"
VocabMessages ==
    { [kind |-> "photo", text |-> << >>],
      [kind |-> "text", text |-> <<"N", "e", " ", "p", "o", "n", "y", "a", "l">>],
      [kind |-> "text", text |-> NotUnderstood],
      [kind |-> "text", text |-> <<"/", "w", " ", "|", " ", "c">>],
      [kind |-> "text", text |-> <<"/", "'", "w", "'">>],
      [kind |-> "text", text |-> <<"w", " ", "|", " ", "c">>] }

\* the handler that takes a message: F.photo of line 212 for a photo, the
\* text routing otherwise
VocabHandlerOf(u, m) == IF m.kind = "photo" THEN "handle_photo" ELSE HandlerOf(u, m.text)

\* an update arrives and its handler runs; a text taken by a handler of
\* another router leaves the vocabulary as it is
VocabUpdate ==
    /\ updates_left > 0
    /\ updates_left' = updates_left - 1
    /\ \E u \in Users, m \in VocabMessages, o \in VocabOutcomes :
         /\ last_update' = Some([user |-> u, text |-> m.text, handler |-> VocabHandlerOf(u, m)])
         /\ CASE VocabHandlerOf(u, m) = "handle_photo" -> handle_photo(u, o)
              [] VocabHandlerOf(u, m) = "handle_not_understood" -> handle_not_understood(u, o)
              [] VocabHandlerOf(u, m) = "vocab.handle_text" -> vocab_handle_text(u, m.text, o)
              [] OTHER -> UNCHANGED vocab_vars
    /\ UNCHANGED <<timer_tasks, active_timers, fsm_state, bot_answers, suspended>>
    /\ UNCHANGED <<core_vars, conn_vars>>

InitVocab ==
    /\ CoreIdle
    /\ NoTimers
    /\ updates_left = MaxUpdates
    /\ VocabIdle
    /\ ConnIdle

NextVocab == VocabUpdate

SpecVocab == InitVocab /\ [][NextVocab]_vars

(***************************************************************************)
(* csv_db.py lines 75-104: the connection store.  Every call reads the     *)
(* whole file with pd.read_csv and save writes it back with to_csv.  The   *)
(* file holds text; read_csv gives a column whose cells all read as whole  *)
(* numbers the integer type, and leaves the cells of any other column as   *)
(* the strings they are.  The calls contain no await.                      *)
(***************************************************************************)
\* a value in memory: a str, or an integer held as its decimal digits
StrValue(v) == [kind |-> "str", text |-> v]

IntValue(cell) == [kind |-> "int", text |-> str(int(cell))]

\* pd.read_csv infers the type of the value column from all of its cells
ReadValue(cells, cell) ==
    IF \A i \in 1..Len(cells) : isdigit(cells[i]) THEN IntValue(cell) ELSE StrValue(cell)

\* line 78 and line 99: pd.read_csv(NOTION_CONNECTIONS_CSV)
read_connections(csv) ==
    LET cells == [i \in 1..Len(csv) |-> csv[i].value]
    IN  [i \in 1..Len(csv) |->
            [user_id |-> csv[i].user_id, connection_type |-> csv[i].connection_type,
             value |-> ReadValue(cells, csv[i].value)]]

\* line 90: df.to_csv writes every value as text
to_csv(df) ==
    [i \in 1..Len(df) |->
        [user_id |-> df[i].user_id, connection_type |-> df[i].connection_type,
         value |-> df[i].value.text]]

\* lines 79 and 100: the rows of a user and a connection type
ConnMask(df, user_id, connection_type) ==
    {i \in 1..Len(df) : df[i].user_id = user_id /\ df[i].connection_type = connection_type}

\* lines 75-94, the successful call: the file after it
save_notion_connection(csv, user_id, connection_type, value) ==
    LET df == read_connections(csv)
        mask == ConnMask(df, user_id, connection_type)
    IN  IF mask # {}
        THEN to_csv([i \in 1..Len(df) |->
                        IF i \in mask THEN [df[i] EXCEPT !.value = StrValue(value)]
                        ELSE df[i]])
        ELSE to_csv(Append(df, [user_id |-> user_id, connection_type |-> connection_type,
                                value |-> StrValue(value)]))

\* lines 96-104: the value of the first row of the pair, None without one
get_notion_connection(csv, user_id, connection_type) ==
    LET df == read_connections(csv)
        mask == ConnMask(df, user_id, connection_type)
    IN  IF mask = {} THEN None
        ELSE Some(df[CHOOSE i \in mask : \A j \in mask : i <= j].value)

\* the values saved while the store is checked: a token, a database id of
\* letters, and ids that are all digits
ConnValues == { <<"s", "k">>, <<"d", "b">>, <<"0", "7">>, <<"7">> }

\* the connection types saved while the store is checked on its own
StoreTypes == {"NOTION_TOKEN", "NOTION_DATABASE_ID"}

\* a caller saves a connection; the call succeeds, or it fails in its
\* try block and leaves the file as it is
ConnSave ==
    /\ updates_left > 0
    /\ updates_left' = updates_left - 1
    /\ \E u \in Users, t \in StoreTypes, v \in ConnValues, ok \in BOOLEAN :
         IF ok
         THEN /\ conn_csv' = save_notion_connection(conn_csv, u, t, v)
              /\ latest_saved' = [latest_saved EXCEPT ![<<u, t>>] = Some(v)]
         ELSE UNCHANGED <<conn_csv, latest_saved>>
    /\ UNCHANGED <<conn_got, dashboard>>
    /\ UNCHANGED <<timer_tasks, active_timers, fsm_state, bot_answers, suspended, last_update>>
    /\ UNCHANGED <<core_vars, vocab_vars>>

\* a caller asks for a connection
ConnGet ==
    /\ \E u \in Users, t \in StoreTypes :
         conn_got' = Some([user_id |-> u, connection_type |-> t,
                           value |-> get_notion_connection(conn_csv, u, t)])
    /\ UNCHANGED <<conn_csv, latest_saved, dashboard>>
    /\ UNCHANGED timer_vars
    /\ UNCHANGED <<core_vars, vocab_vars>>

InitConn ==
    /\ CoreIdle
    /\ NoTimers
    /\ updates_left = MaxUpdates
    /\ VocabIdle
    /\ ConnIdle

NextConn == ConnSave \/ ConnGet

SpecConn == InitConn /\ [][NextConn]_vars

(***************************************************************************)
(* handlers/notion.py and handlers/start.py: the commands that store a     *)
(* connection and the dashboard that shows them.  The checks of a token    *)
(* or a database are remote calls that pass or fail; none of the handlers  *)
(* is suspended between its read and its write of the store.               *)
(***************************************************************************)
\* bool(value) of what get_notion_connection returned
ValueTruthy(got) ==
    /\ got # None
    /\ got[1].text # << >>
    /\ ~(got[1].kind = "int" /\ got[1].text = <<"0">>)

\* a handler answers and changes neither the store nor the dashboard
ConnReply(u, msg) ==
    /\ bot_answers' = Append(bot_answers, Answer(u, msg, 0))
    /\ UNCHANGED <<conn_csv, latest_saved, dashboard>>

\* the last lines of the three commands: the connection is saved and the
\* success reported, or the save fails and the file stays as it is
SaveAndReply(u, connection_type, value, saved) ==
    IF saved
    THEN /\ conn_csv' = save_notion_connection(conn_csv, u, connection_type, value)
         /\ latest_saved' = [latest_saved EXCEPT ![<<u, connection_type>>] = Some(value)]
         /\ bot_answers' = Append(bot_answers, Answer(u, "connected", 0))
         /\ UNCHANGED dashboard
    ELSE ConnReply(u, "failed_to_save")

\* notion.py lines 48-77
cmd_connect_notion(u, t, o) ==
    LET args == split(t)
    IN  IF Len(args) # 2 THEN ConnReply(u, "invalid_format")
        ELSE IF ~o.verified THEN ConnReply(u, "invalid_token")
        ELSE SaveAndReply(u, "NOTION_TOKEN", args[2], o.saved)

\* notion.py lines 79-117
cmd_connect_notion_table(u, t, o) ==
    LET args == split(t)
    IN  IF Len(args) # 2 THEN ConnReply(u, "invalid_format")
        ELSE IF ~ValueTruthy(get_notion_connection(conn_csv, u, "NOTION_TOKEN"))
        THEN ConnReply(u, "connect_token_first")
        ELSE IF ~o.verified THEN ConnReply(u, "invalid_database")
        ELSE SaveAndReply(u, "NOTION_MAIN_DATABASE_ID", args[2], o.saved)

\* notion.py lines 119-159
cmd_connect_notion_category_table(u, t, o) ==
    LET args == split(t)
    IN  IF Len(args) # 3 THEN ConnReply(u, "invalid_format")
        ELSE IF args[2] # <<"1">> THEN ConnReply(u, "only_category_1")
        ELSE IF ~ValueTruthy(get_notion_connection(conn_csv, u, "NOTION_TOKEN"))
        THEN ConnReply(u, "connect_token_first")
        ELSE IF ~o.verified THEN ConnReply(u, "invalid_database")
        ELSE SaveAndReply(u, "NOTION_DATABASE_ID_1", args[3], o.saved)

\* start.py lines 85-90: the status the dashboard shows
NotionStatus(u) ==
    [user |-> u,
     token |-> ValueTruthy(get_notion_connection(conn_csv, u, "NOTION_TOKEN")),
     main_table |-> ValueTruthy(get_notion_connection(conn_csv, u, "NOTION_DATABASE_ID")),
     category_tables |->
        ValueTruthy(get_notion_connection(conn_csv, u, "NOTION_DATABASE_ID_2"))]

\* start.py lines 74-106: the dashboard is sent, or an exception on the way
\* (o.saved false: no row of the user in users.csv) ends in the apology
cmd_start(u, o) ==
    IF o.saved
    THEN /\ dashboard' = Some(NotionStatus(u))
         /\ bot_answers' = Append(bot_answers, Answer(u, "dashboard", 0))
         /\ UNCHANGED <<conn_csv, latest_saved>>
    ELSE ConnReply(u, "something_went_wrong")

\* the commands the users send while the dashboard is checked
DashTexts ==
    { CmdStart,
      CmdConnectNotion \o <<" ", "s", "k">>,
      CmdConnectNotionTable \o <<" ", "d", "b">>,
      CmdConnectNotionTable,
      CmdConnectNotionCategoryTable \o <<" ", "1", " ", "d", "b">>,
      CmdConnectNotionCategoryTable \o <<" ", "2", " ", "d", "b">> }

\* how the remote check and the write of a handler go
DashOutcomes == [verified : BOOLEAN, saved : BOOLEAN]

\* an update arrives and its handler runs
DashUpdate ==
    /\ updates_left > 0
    /\ updates_left' = updates_left - 1
    /\ \E u \in Users, t \in DashTexts, o \in DashOutcomes :
         /\ last_update' = Some([user |-> u, text |-> t, handler |-> HandlerOf(u, t)])
         /\ CASE HandlerOf(u, t) = "cmd_start" -> cmd_start(u, o)
              [] HandlerOf(u, t) = "cmd_connect_notion" -> cmd_connect_notion(u, t, o)
              [] HandlerOf(u, t) = "cmd_connect_notion_table" ->
                   cmd_connect_notion_table(u, t, o)
              [] HandlerOf(u, t) = "cmd_connect_notion_category_table" ->
                   cmd_connect_notion_category_table(u, t, o)
              [] OTHER -> UNCHANGED <<conn_csv, latest_saved, dashboard, bot_answers>>
    /\ UNCHANGED <<conn_got, timer_tasks, active_timers, fsm_state, suspended>>
    /\ UNCHANGED <<core_vars, vocab_vars>>

InitDash ==
    /\ CoreIdle
    /\ NoTimers
    /\ updates_left = MaxUpdates
    /\ VocabIdle
    /\ ConnIdle

NextDash == DashUpdate

SpecDash == InitDash /\ [][NextDash]_vars

(***************************************************************************)
(* Properties of the timers, under SpecTimer.                              *)
(***************************************************************************)
\* the timer tasks of a user that are not done
Running(u) == {i \in 1..Len(timer_tasks) : timer_tasks[i].user = u /\ ~Done(timer_tasks[i])}

\* C21: every user has at most one timer task that is not done, and
\* active_timers[user] is that task whenever there is one.
C21_SingleActiveTimer ==
    \A u \in Users :
        /\ Cardinality(Running(u)) <= 1
        /\ \A i \in Running(u) : active_timers[u] = i

\* a user started a second session after the first one was done, and the
\* second timer is running
C21_Witness ==
    \E u \in Users :
        /\ Cardinality({i \in 1..Len(timer_tasks) : timer_tasks[i].user = u}) >= 2
        /\ Running(u) # {}

\* the step is the dispatch of an update from user u to the named handler
Dispatched(u, handler) ==
    /\ updates_left' < updates_left
    /\ last_update'[1].user = u
    /\ last_update'[1].handler = handler

\* the rest minutes of the /pomodoro command behind the user's latest timer
RestMinutes(u) == ParseMinutes(split(timer_tasks[active_timers[u]].message)[3])[1]

\* the step creates a timer of the phase and duration for u and registers it
Starts(u, phase, duration) ==
    /\ Len(timer_tasks') = Len(timer_tasks) + 1
    /\ Last(timer_tasks').user = u
    /\ Last(timer_tasks').phase = phase
    /\ Last(timer_tasks').duration = duration
    /\ active_timers'[u] = Len(timer_tasks')

\* C22: a work timer that runs to completion leaves its user in
\* waiting_for_rest; a yes (in any letter case) answered in that state
\* starts a rest timer of the R minutes of the /pomodoro command and
\* registers it as the user's active timer; a no starts no timer.
C22_RestPhase ==
    [][\A u \in Users :
         /\ (\E i \in 1..Len(timer_tasks) :
                /\ timer_tasks[i].user = u
                /\ timer_tasks[i].phase = "work"
                /\ timer_tasks[i].at = "finish"
                /\ timer_tasks'[i].at = "returned_true")
              => fsm_state'[u] = "waiting_for_rest"
         /\ Dispatched(u, "handle_rest_confirmation")
              => IF lower(last_update'[1].text) = Yes
                 THEN Starts(u, "rest", RestMinutes(u) * 60)
                 ELSE timer_tasks' = timer_tasks]_vars

(***************************************************************************)
(* Properties of the merge (analyze_task_with_gpt, process_tasks).         *)
(***************************************************************************)
\* the classifier answered with a JSON array whose length differs from the
\* number of parsed activities
CountMismatch ==
    /\ gpt_tasks.kind = "array"
    /\ Len(gpt_tasks.items) # Len(parsed_tasks.tasks)

\* the classifier answered with a JSON array of the length of the parsed sequence
CountMatch ==
    /\ gpt_tasks.kind = "array"
    /\ Len(gpt_tasks.items) = Len(parsed_tasks.tasks)

\* C1: when the classifier's array and the parsed sequence differ in length,
\* analyze_task_with_gpt yields None: no merged record, no partial merge.
C1_MismatchYieldsNone == CountMismatch => tasks_data = None

\* C1 witness: two parsed activities, one classified object, no result
C1_Witness ==
    /\ Len(parsed_tasks.tasks) = 2
    /\ gpt_tasks.kind = "array" /\ Len(gpt_tasks.items) = 1
    /\ tasks_data = None
    /\ pc = "done"

\* C2: on a count mismatch nothing of the batch is persisted: no row in the
\* flat file, no record in the workspace database, no create request issued,
\* whether the workspace is connected or not.
C2_MismatchPersistsNothing ==
    CountMismatch =>
        /\ tasks_csv = << >>
        /\ notion_pages = << >>
        /\ \A i \in 1..Len(events) : events[i].op # "pages.create"
        /\ pc = "done" /\ returned = Some(FALSE)

\* C2 witness: a connected user, three classified objects for two activities
C2_Witness ==
    /\ Connected
    /\ Len(parsed_tasks.tasks) = 2
    /\ gpt_tasks.kind = "array" /\ Len(gpt_tasks.items) = 3
    /\ pc = "done" /\ tasks_csv = << >>

\* the ISO-8601 form of a parsed datetime, as the persistence layer expects it
IsoOf(dt) == [date |-> dt.date, hh |-> dt.hh, mm |-> dt.mm, ss |-> 0, utcoff |-> 180]

\* C3: with equal lengths the merge yields one record per index, in order;
\* record i has start_datetime, end_datetime and csat of parsed activity i
\* (whatever the classifier supplied under those keys) and every other
\* field of classified object i.
C3_PositionalMerge ==
    CountMatch =>
        /\ tasks_data # None
        /\ Len(tasks_data[1]) = Len(parsed_tasks.tasks)
        /\ pc = "save" =>
             \A i \in 1..Len(parsed_tasks.tasks) :
                LET m == tasks_data[1][i]
                    l == parsed_tasks.tasks[i]
                    r == gpt_tasks.items[i]
                IN  /\ m.start_datetime = Present(Some(IsoOf(l.start_datetime)))
                    /\ m.end_datetime =
                         Present(IF l.end_datetime = None THEN None
                                 ELSE Some(IsoOf(l.end_datetime[1])))
                    /\ m.csat = Present(l.csat)
                    /\ \A k \in DictKeys \ MergedKeys : m[k] = r[k]

\* C3 witness: two activities with different csat, two different classified
\* objects, the first of which carries its own csat and dates
C3_Witness ==
    /\ pc = "save"
    /\ CountMatch
    /\ Len(parsed_tasks.tasks) = 2
    /\ parsed_tasks.tasks[1].csat # parsed_tasks.tasks[2].csat
    /\ gpt_tasks.items[1] # gpt_tasks.items[2]
    /\ Has(gpt_tasks.items[1], "csat")

(***************************************************************************)
(* Properties of the parser (_parse_activity_lines), under SpecParse.      *)
(***************************************************************************)
\* the lines the first pass keeps, in order, and their regex groups
MatchedLines == SelectSeq(text, LineMatches)

\* hour and minute of a time token H:MM / HH:MM
TokTime(tok) ==
    <<int(SubSeq(tok, 1, Len(tok) - 3)), int(SubSeq(tok, Len(tok) - 1, Len(tok)))>>

TimeOfDay(dt) == <<dt.hh, dt.mm>>

\* minutes on a scale on which datetimes compare as on the calendar
Instant(dt) ==
    (((dt.date.y * 12 + dt.date.m) * 31 + dt.date.d) * 24 + dt.hh) * 60 + dt.mm

\* the end token the claim assigns to matched line i: its own explicit end,
\* else the start token of line i + 1, else none
InferredEnd(ls, i) ==
    IF RE_LINE(ls[i]).end # None THEN RE_LINE(ls[i]).end
    ELSE IF i < Len(ls) THEN RE_LINE(ls[i + 1]).start
    ELSE None

\* every time token of every matched line is a time of day
AllTimesInRange(ls) ==
    \A i \in 1..Len(ls) :
        /\ TokTime(RE_LINE(ls[i]).start)[1] <= 23 /\ TokTime(RE_LINE(ls[i]).start)[2] <= 59
        /\ RE_LINE(ls[i]).end # None =>
             TokTime(RE_LINE(ls[i]).end)[1] <= 23 /\ TokTime(RE_LINE(ls[i]).end)[2] <= 59

\* C4: end-time inference.  For every matched line i of a parsed batch: an
\* explicit end is the end (the successor is ignored); without explicit end
\* the end time of day is the start time of day of line i + 1, and equals
\* its start_datetime when that lies later; the last line without
\* explicit end has no end.
C4_EndTimeInference ==
    (pc = "parsed" /\ parsed_tasks.ok) =>
        LET ls == MatchedLines
            ts == parsed_tasks.tasks
        IN  /\ Len(ts) = Len(ls)
            /\ \A i \in 1..Len(ls) :
                 IF RE_LINE(ls[i]).end # None
                 THEN /\ ts[i].end_datetime # None
                      /\ TimeOfDay(ts[i].end_datetime[1]) = TokTime(RE_LINE(ls[i]).end)
                 ELSE IF i < Len(ls)
                 THEN /\ ts[i].end_datetime # None
                      /\ TimeOfDay(ts[i].end_datetime[1]) = TimeOfDay(ts[i + 1].start_datetime)
                      /\ Instant(ts[i + 1].start_datetime) > Instant(ts[i].start_datetime)
                           => ts[i].end_datetime = Some(ts[i + 1].start_datetime)
                 ELSE ts[i].end_datetime = None

\* C4 witness: three activities; the first ends where the second starts, the
\* second has an explicit end that is not the third's start, the third has
\* no end
C4_Witness ==
    /\ pc = "parsed" /\ parsed_tasks.ok
    /\ Len(parsed_tasks.tasks) = 3
    /\ RE_LINE(MatchedLines[1]).end = None
    /\ parsed_tasks.tasks[1].end_datetime = Some(parsed_tasks.tasks[2].start_datetime)
    /\ RE_LINE(MatchedLines[2]).end # None
    /\ TimeOfDay(parsed_tasks.tasks[2].end_datetime[1])
         # TimeOfDay(parsed_tasks.tasks[3].start_datetime)
    /\ parsed_tasks.tasks[3].end_datetime = None

\* C5: midnight rollover.  For every batch date and every entry whose end
\* time of day is strictly earlier than its start time of day, the entry is
\* produced with its end on the calendar day after the start's day, at the
\* end time of day.
C5_MidnightRollover ==
    (pc = "parsed" /\ AllTimesInRange(MatchedLines)) =>
        \A i \in 1..Len(MatchedLines) :
            LET st == TokTime(RE_LINE(MatchedLines[i]).start)
                en == InferredEnd(MatchedLines, i)
            IN  (en # None /\ (TokTime(en)[1] * 60 + TokTime(en)[2] < st[1] * 60 + st[2])) =>
                    /\ parsed_tasks.ok
                    /\ parsed_tasks.tasks[i].start_datetime.date = task_date[1]
                    /\ parsed_tasks.tasks[i].end_datetime =
                         Some([date |-> NextDay(task_date[1]),
                               hh |-> TokTime(en)[1], mm |-> TokTime(en)[2]])

\* C6: every activity the parser produces has no end or an end that is not
\* before its start.
C6_EndNotBeforeStart ==
    pc = "parsed" =>
        \A i \in 1..Len(parsed_tasks.tasks) :
            \/ parsed_tasks.tasks[i].end_datetime = None
            \/ Instant(parsed_tasks.tasks[i].end_datetime[1])
                 >= Instant(parsed_tasks.tasks[i].start_datetime)

\* C6 witness: an activity across midnight, produced with its end on the day
\* after its start
C6_Witness ==
    /\ pc = "parsed" /\ parsed_tasks.ok
    /\ \E i \in 1..Len(parsed_tasks.tasks) :
         /\ parsed_tasks.tasks[i].end_datetime # None
         /\ parsed_tasks.tasks[i].end_datetime[1].date
              = NextDay(parsed_tasks.tasks[i].start_datetime.date)
         /\ parsed_tasks.tasks[i].end_datetime[1].hh < parsed_tasks.tasks[i].start_datetime.hh

\* the body with its final whitespace-delimited token removed, trimmed
WithoutLastToken(b) == strip(SubSeq(b, 1, Len(b) - Len(LastToken(b))))

\* C7: csat extraction.  For every matched line: if the final token of the
\* body is all digits, csat is its value and the name is the body without
\* that token, trimmed; otherwise csat is absent and the name is the
\* trimmed body.
C7_CsatExtraction ==
    (pc = "parsed" /\ parsed_tasks.ok) =>
        \A i \in 1..Len(MatchedLines) :
            LET b == strip(RE_LINE(MatchedLines[i]).body)
                t == parsed_tasks.tasks[i]
            IN  IF b # << >> /\ isdigit(LastToken(b))
                THEN t.csat = Some(int(LastToken(b))) /\ t.name = WithoutLastToken(b)
                ELSE t.csat = None /\ t.name = b

\* the shape of an activity line as the claim words it: not blank, a leading
\* H:MM / HH:MM token followed by a hyphen or dash
HasActivityShape(line) ==
    LET s    == lstrip(line)
        rest == lstrip(SubSeq(s, TimeTokenLen(s) + 1, Len(s)))
    IN  TimeTokenLen(s) > 0 /\ rest # << >> /\ IsDash(Head(rest))

\* C8: lines without the activity shape are skipped silently: the outcome
\* of parsing a line sequence (the activities, or the failure) is the
\* outcome of parsing it with those lines removed.
C8_SkipNonMatching ==
    pc = "parsed" =>
        parsed_tasks = parse_activity_lines(SelectSeq(text, HasActivityShape), task_date[1])

\* C8 witness: a line without the shape between two activity lines; two
\* activities come out and the first ends where the second starts
C8_Witness ==
    /\ pc = "parsed" /\ parsed_tasks.ok
    /\ Len(text) = 3
    /\ HasActivityShape(text[1]) /\ ~HasActivityShape(text[2]) /\ HasActivityShape(text[3])
    /\ Len(parsed_tasks.tasks) = 2
    /\ parsed_tasks.tasks[1].end_datetime = Some(parsed_tasks.tasks[2].start_datetime)

(***************************************************************************)
(* Properties of the pipeline's local stage (analyze_task_with_gpt steps 1 *)
(* and 2 inside process_tasks), under Spec.                                *)
(***************************************************************************)
\* process_tasks has run the local stage of analyze_task_with_gpt
LocalStageDone == mode = "tasks" /\ pc \in {"gpt", "save", "notion", "done"}

\* no line of the message matches the temporal pattern
NoLineMatches == \A i \in 1..Len(text) : ~LineMatches(text[i])

\* C9: when no line of the message matches the temporal pattern, the
\* pipeline yields no result and aborts before any remote call: no request to
\* the language model and none to the workspace store (the read of the
\* classification targets included) has been issued, nothing is persisted.
C9_AbortBeforeRemoteCall ==
    (pc = "done" /\ mode = "tasks" /\ text # << >> /\ NoLineMatches) =>
        /\ tasks_data = None
        /\ events = << >>
        /\ tasks_csv = << >> /\ notion_pages = << >>

\* the calendar date a first line states, in ISO form or in day/month/year
\* form with "." or "/" and a year of 2 to 4 digits (a year of fewer than
\* four digits is read in the current century)
StatedDate(line) ==
    LET s == strip(line)
        p == DMYParts(s)
    IN  IF RE_DATE_ISO(s)
        THEN D(int(SubSeq(s, 1, 4)), int(SubSeq(s, 6, 7)), int(SubSeq(s, 9, 10)))
        ELSE D(IF Len(p.yy) = 4 THEN int(p.yy) ELSE 2000 + int(p.yy), int(p.mo), int(p.dd))

\* the first line is an explicit calendar date in one of the accepted forms
IsDateLine(line) ==
    /\ RE_DATE_ISO(strip(line)) \/ RE_DATE_DMY(strip(line))
    /\ StatedDate(line).y >= 1 /\ ValidDate(StatedDate(line))

\* C10: a first line that is an explicit calendar date (ISO, or
\* day/month/year with "." or "/" and a 2- to 4-digit year) sets the date of
\* the batch, is itself excluded from activity parsing, and the remaining
\* lines are parsed normally.
C10_DateLineSetsBatchDate ==
    (LocalStageDone /\ text # << >> /\ IsDateLine(Head(text))) =>
        /\ task_date = Some(StatedDate(Head(text)))
        /\ parsed_tasks = parse_activity_lines(Tail(text), StatedDate(Head(text)))

(***************************************************************************)
(* Properties of the date derivation (analyze_task_with_gpt, lines         *)
(* 211-219).                                                               *)
(***************************************************************************)
\* the calendar date, in the zone UTC+3, of the instant the server's clock
\* shows: the clock's minute of the day moved to UTC+3 falls on the previous,
\* the same or the next day
ReferenceDateInZone ==
    LET m   == timestamp.hh * 60 + timestamp.mm - timestamp.utcoff + 180
        off == (m + 1440) \div 1440 - 1
    IN  IF off = 1 THEN NextDay(timestamp.date)
        ELSE IF off = -1 THEN PrevDay(timestamp.date)
        ELSE timestamp.date

\* the first line of the message is no date line
NoDateLine == text # << >> /\ parse_date(Head(text)).kind = "none"

\* C11: without a date line every activity of the batch starts on the
\* calendar date the reference timestamp has in the zone Europe/Moscow
\* (UTC+3), in the parsed sequence and in the merged ISO strings alike, so
\* all start_datetimes of the batch carry one date.
C11_ReferenceDate ==
    (LocalStageDone /\ NoDateLine /\ parsed_tasks.ok) =>
        /\ task_date = Some(ReferenceDateInZone)
        /\ \A i \in 1..Len(parsed_tasks.tasks) :
             parsed_tasks.tasks[i].start_datetime.date = ReferenceDateInZone
        /\ tasks_data # None =>
             \A i \in 1..Len(tasks_data[1]) :
                /\ tasks_data[1][i].start_datetime[1][1].date = ReferenceDateInZone
                /\ tasks_data[1][i].start_datetime[1][1].utcoff = 180

\* C11 witness: a server on UTC at 22:00 on 5 March, two activities merged,
\* both on 6 March
C11_Witness ==
    /\ pc = "save" /\ NoDateLine
    /\ timestamp.utcoff = 0
    /\ Len(tasks_data[1]) = 2
    /\ \A i \in 1..2 : tasks_data[1][i].start_datetime[1][1].date = D(2024, 3, 6)

(***************************************************************************)
(* Properties of the classifier request (build_prompt, analyze_task_with_  *)
(* gpt lines 223-235).                                                     *)
(***************************************************************************)
\* the body of a matched line after csat removal, as the contract words it:
\* the trimmed body without a final all-digit token
ClaimedBody(line) ==
    LET b == strip(RE_LINE(line).body)
    IN  IF b # << >> /\ isdigit(LastToken(b)) THEN WithoutLastToken(b) ELSE b

\* the bodies of the matched lines of a message, in order
ClaimedBodies(t) ==
    LET ls == SelectSeq(t, LineMatches)
    IN  [i \in 1..Len(ls) |-> ClaimedBody(ls[i])]

\* the request to the language model this run issued
IsChatRequest(e) == e.op = "chat.completions.create"

\* C12: the classifier request depends only on the ordered activity names,
\* the reference timestamp and the classification targets: any other message
\* whose matched lines have the same bodies (after csat removal) in the same
\* order, whatever its start times, end times and csat values, yields the
\* identical prompt.
C12_PromptFromNamesOnly ==
    (pc = "gpt" /\ NoDateLine) =>
        \A t2 \in SeqsUpTo(TaskLines, MaxBatch) :
            \A a2 \in {AnalyzeLocal(t2, timestamp)} :
                (ClaimedBodies(t2) = ClaimedBodies(text) /\ ~a2.raised) =>
                    \A i \in 1..Len(events) :
                        IsChatRequest(events[i]) =>
                            events[i].prompt =
                                Some(build_prompt(TaskNames(a2.parsed.tasks), timestamp,
                                                  events[i].page_opts))

(***************************************************************************)
(* Properties of the pipeline boundary, of the adapters and of the         *)
(* routing, under Spec.                                                    *)
(***************************************************************************)
\* C13: no failure crosses the pipeline boundary as an exception: for every
\* text, the empty text included, and every outcome of the remote calls the
\* handler ends with a message to the user and a boolean result, never with
\* an exception.
C13_NoExceptionEscapes ==
    /\ pc # "raised"
    /\ pc = "done" => (returned # None /\ answers # << >>)

\* the response is a bare text that is no JSON, or a JSON value that is no array
NonArrayResponse ==
    /\ ~gpt_raw.raises
    /\ gpt_raw.open = NoFence /\ ~gpt_raw.close
    /\ gpt_raw.payload.kind # "array"

\* a create-record request of the workspace store
IsCreate(e) == e.op = "pages.create"

\* C14: in both adapters a response that does not parse as JSON, or parses to
\* an object, a string, a number or null, is no result: the adapter gives
\* None, and no record derived from the response is shown or persisted.
C14_NonArrayIsNoResult ==
    (gpt_tasks.kind # "none" \/ pc \in {"tnotion", "done"}) =>
        (NonArrayResponse =>
            /\ tasks_data = None
            /\ thoughts_data = None
            /\ tasks_csv = << >> /\ notion_pages = << >>
            /\ SelectSeq(events, IsCreate) = << >>)

\* the response is a JSON array inside an opening and a closing code fence
FencedArrayResponse ==
    /\ ~gpt_raw.raises
    /\ gpt_raw.payload.kind = "array"
    /\ gpt_raw.open \in {FenceJson, FencePlain} /\ gpt_raw.close

\* C15: a JSON array wrapped in a code fence (with or without language tag,
\* with or without whitespace around it) gives the adapter result of the
\* same array sent bare.
C15_FenceStripping ==
    FencedArrayResponse =>
        /\ mode = "tasks" =>
             /\ gpt_tasks = LoadResponse(Unfenced(gpt_raw.payload))
             /\ pc = "save" =>
                  tasks_data = MergeTasks(parsed_tasks.tasks,
                                          LoadResponse(Unfenced(gpt_raw.payload)))
        /\ mode = "thoughts" =>
             thoughts_data = analyze_thoughts(Unfenced(gpt_raw.payload))

\* the routing as the contract words it: the first line that is not blank,
\* trimmed and lower-cased, is the sentinel word
FirstNonEmptyIsSentinel(t) ==
    LET ls == DropLeadingBlank(t)
    IN  ls # << >> /\ lower(strip(Head(ls))) = Sentinel

\* what follows the first line that is not blank
AfterSentinel(t) == JoinStrip(Tail(DropLeadingBlank(t)))

\* C16: a text message goes to the thought pipeline (no temporal parsing,
\* process_thoughts on the text after the sentinel line) exactly when its
\* first non-empty line, trimmed, equals the sentinel word whatever the
\* case; every other message goes to the task pipeline; exactly one of the
\* two runs.
C16_ModeRouting ==
    pc # "recv" =>
        /\ mode \in {"tasks", "thoughts"}
        /\ mode = "thoughts" <=> FirstNonEmptyIsSentinel(text)
        /\ mode = "thoughts" =>
             /\ thoughts_text = AfterSentinel(text)
             /\ parsed_tasks = NotParsed /\ task_date = None /\ tasks_data = None
        /\ mode = "tasks" => thoughts_data = None

\* the create-record requests issued so far
Creates == SelectSeq(events, IsCreate)

\* C17: create_notion_thought issues exactly one create-record request per
\* idea, in the order of the ideas, each with the fixed status and the raw
\* thought text as content block; a failed request does not stop the
\* following ones; the function reports success exactly when every request
\* succeeded.
C17_OneRecordPerIdea ==
    (pc = "done" /\ mode = "thoughts" /\ ThoughtsConnected
        /\ ~Falsy(thoughts_data) /\ Iterable(thoughts_data)) =>
        LET ideas == thoughts_data[1].items
        IN  /\ Len(Creates) = Len(ideas)
            /\ \A i \in 1..Len(ideas) :
                 /\ Creates[i].props[1].Name = ideas[i].name[1]
                 /\ Creates[i].props[1].Status = ThoughtStatus
                 /\ Creates[i].children = Some(thoughts_text)
            /\ returned = Some(\A i \in 1..Len(Creates) : Creates[i].ok)
            /\ Len(notion_pages) = Cardinality({i \in 1..Len(Creates) : Creates[i].ok})

\* C17 witness: two ideas, the first request fails, the second is issued and
\* succeeds, the function reports failure
C17_Witness ==
    /\ pc = "done" /\ mode = "thoughts"
    /\ Len(Creates) = 2
    /\ ~Creates[1].ok /\ Creates[2].ok
    /\ thoughts_text # << >>
    /\ returned = Some(FALSE)

(***************************************************************************)
(* Properties of persistence (process_tasks lines 189-203, save_tasks,     *)
(* create_notion_task).                                                    *)
(***************************************************************************)
\* process_tasks of a connected user ended after the batch was merged
PersistenceDone ==
    pc = "done" /\ mode = "tasks" /\ Connected /\ tasks_data # None

\* C18: the two sinks are reported independently: a failure of one sink is
\* reported for that sink and does not suppress the attempt on the other;
\* a failed workspace write after a successful local save leaves the saved
\* rows in place and is reported as saved locally but not in the workspace.
C18_PerSinkReporting ==
    PersistenceDone =>
        /\ Creates # << >>
        /\ tasks_csv = << >> => Last(answers) = "couldnt_save_locally"
        /\ (\E i \in 1..Len(Creates) : ~Creates[i].ok) =>
             /\ tasks_csv = tasks_data[1]
             /\ Last(answers) = "saved_locally_but_not_in_notion"

(***************************************************************************)
(* Properties of the flat-file task store, under SpecStore.                *)
(***************************************************************************)
\* the rows saved so far with user identifier u, in the order of the saves,
\* as a CSV file holds them
RECURSIVE SavedRows(_, _)
SavedRows(log, u) ==
    IF log = << >> THEN << >>
    ELSE (IF Head(log).user = u
          THEN [i \in 1..Len(Head(log).rows) |->
                  ReadCsvRow([Head(log).rows[i] EXCEPT !.user_id = Present(u)])]
          ELSE << >>)
         \o SavedRows(Tail(log), u)

IsPrefix(a, b) == Len(a) <= Len(b) /\ SubSeq(b, 1, Len(a)) = a

BothSinksWritten ==
    pc = "done" /\ mode = "tasks" /\ returned = Some(TRUE)

\* C20: the csat of a merged task is carried unchanged into persistence:
\* whatever its value, 0 included, the flat-file row and the workspace
\* record of the task carry it; a task without csat is persisted without.
C20_CsatCarriedThrough ==
    BothSinksWritten =>
        \A i \in 1..Len(parsed_tasks.tasks) :
            LET csat == parsed_tasks.tasks[i].csat
            IN  /\ tasks_data[1][i].csat = Present(csat)
                /\ get_user_tasks(tasks_csv, UserId)[i].csat = Present(csat)
                /\ notion_pages[i].csat = (IF csat = None THEN Absent ELSE Present(csat))

(***************************************************************************)
(* Properties of /stop, under SpecTimer.                                   *)
(***************************************************************************)
\* the messages with which run_timer announces progress or completion
Announcements == {"time_left", "work_over", "session_completed"}

\* the step sends an announcement of timer task i
Announces(i) ==
    /\ Len(bot_answers') > Len(bot_answers)
    /\ Last(bot_answers').task = i
    /\ Last(bot_answers').text \in Announcements

\* /stop was answered for the user's latest timer, and both the handler and
\* the timer have finished
StopSettled(u) ==
    /\ active_timers[u] # 0
    /\ timer_tasks[active_timers[u]].stopped
    /\ Done(timer_tasks[active_timers[u]])
    /\ suspended[u] = 0

\* the words of a /pomodoro command with two positive times
ValidPomodoro(t) ==
    /\ Len(split(t)) = 3
    /\ ParseMinutes(split(t)[2]) # None /\ ParseMinutes(split(t)[2])[1] > 0
    /\ ParseMinutes(split(t)[3]) # None /\ ParseMinutes(split(t)[3])[1] > 0

\* C26: a /stop from a user with a running timer cancels that timer; from
\* then on the timer announces nothing and never returns from the end of
\* its phase, where it would put the user into waiting_for_rest; when the
\* handler and the timer have finished, the FSM state of the user is
\* cleared and a new /pomodoro is accepted.  A /stop from a user without a running timer changes no timer
\* and is answered with the no-active-timer message.
C26_Stop ==
    /\ [](\A u \in Users : StopSettled(u) => fsm_state[u] = "none")
    /\ [][\A u \in Users :
            /\ Dispatched(u, "cmd_stop") /\ Busy(u)
                 => /\ timer_tasks'[active_timers[u]].must_cancel
                    /\ Len(timer_tasks') = Len(timer_tasks)
            /\ \A i \in 1..Len(timer_tasks) :
                 timer_tasks[i].stopped
                   => /\ ~Announces(i)
                      /\ timer_tasks'[i].at # "returned_true"
            /\ (/\ Dispatched(u, "cmd_pomodoro")
                /\ ValidPomodoro(last_update'[1].text)
                /\ StopSettled(u))
                 => Starts(u, "work", ParseMinutes(split(last_update'[1].text)[2])[1] * 60)
            /\ Dispatched(u, "cmd_stop") /\ ~Busy(u)
                 => /\ timer_tasks' = timer_tasks
                    /\ active_timers' = active_timers
                    /\ Last(bot_answers') = Answer(u, "no_active_timer", 0)]_vars

\* a new session was accepted after the user's previous timer was stopped
C26_Witness ==
    \E u \in Users :
        \E i, j \in 1..Len(timer_tasks) :
            /\ i < j
            /\ timer_tasks[i].user = u /\ timer_tasks[j].user = u
            /\ timer_tasks[i].stopped /\ timer_tasks[i].at = "returned_false"
            /\ timer_tasks[j].at = "starting"

(***************************************************************************)
(* Properties of the vocabulary follow-up, under SpecVocab.                *)
(***************************************************************************)
\* C23: a text that casefolds to the follow-up words, sent by a user with a
\* cached entry, is taken by handle_not_understood; when its explaining
\* call succeeds it answers with the Russian explanation of that entry,
\* appends the entry with explain_ru filled to the file and caches that row
\* for the user, and the cache of every other user stays as it is.
C23_VocabFollowUp ==
    [][\A u \in Users :
         (/\ updates_left' < updates_left
          /\ last_update'[1].user = u
          /\ casefold(last_update'[1].text) = NotUnderstood
          /\ last_by_user[u] # None)
           => /\ last_update'[1].handler = "handle_not_understood"
              /\ vocab_csv' # vocab_csv
                   => LET last == last_by_user[u][1]
                          ru == ExplainRu(last.phrase, last.context)
                      IN  /\ Last(vocab_answers') = VocabAnswer(u, "explain_ru", ru)
                          /\ vocab_csv' = Append(vocab_csv, [last EXCEPT !.explain_ru = ru])
                          /\ last_by_user'[u] = Some(Last(vocab_csv'))
                          /\ \A v \in Users \ {u} : last_by_user'[v] = last_by_user[v]]_vars

(***************************************************************************)
(* Properties of the connection store, under SpecConn.                     *)
(***************************************************************************)
\* C25: after any sequence of successful saves the store holds at most one
\* row per user and connection type, and get_notion_connection returns for
\* every pair the value of its most recent save, None where there was
\* none: a save for one pair changes what is returned for no other pair.
C25_ConnectionUpsert ==
    \A u \in Users, t \in ConnectionTypes :
        /\ Cardinality(ConnMask(conn_csv, u, t)) <= 1
        /\ get_notion_connection(conn_csv, u, t) =
             (IF latest_saved[<<u, t>>] = None THEN None
              ELSE Some(StrValue(latest_saved[<<u, t>>][1])))

(***************************************************************************)
(* Properties of the dashboard, under SpecDash.                            *)
(***************************************************************************)
\* a command of the user stored a connection of the type
StoredByCommand(u, connection_type) == latest_saved[<<u, connection_type>>] # None

\* the step is a /start of user u whose dashboard was sent
DashboardSent(u) ==
    /\ Dispatched(u, "cmd_start")
    /\ Last(bot_answers') = Answer(u, "dashboard", 0)

\* C24: a dashboard sent to a user after a successful /connect_notion_table
\* reports the main table as connected, one sent after a successful
\* /connect_notion_category_table 1 reports the category tables as
\* connected, and a connection is reported as connected only if a command
\* stored it for that user.
C24_DashboardStatus ==
    [][\A u \in Users :
         DashboardSent(u)
           => /\ StoredByCommand(u, "NOTION_MAIN_DATABASE_ID") => dashboard'[1].main_table
              /\ StoredByCommand(u, "NOTION_DATABASE_ID_1") => dashboard'[1].category_tables
              /\ dashboard'[1].token => StoredByCommand(u, "NOTION_TOKEN")
              /\ dashboard'[1].main_table => StoredByCommand(u, "NOTION_MAIN_DATABASE_ID")
              /\ dashboard'[1].category_tables
                   => StoredByCommand(u, "NOTION_DATABASE_ID_1")]_vars

(***************************************************************************)
(* Properties of the dates of a batch, under SpecParse.                    *)
(***************************************************************************)
\* minutes since midnight of a datetime
MinuteOfDay(dt) == dt.hh * 60 + dt.mm

\* task i + 1 starts at an earlier time of day than task i
StartsEarlierThanPredecessor(i) ==
    /\ i < Len(parsed_tasks.tasks)
    /\ MinuteOfDay(parsed_tasks.tasks[i + 1].start_datetime)
         < MinuteOfDay(parsed_tasks.tasks[i].start_datetime)

\* C27: in every batch the parser produces, every start_datetime lies on
\* the batch date and an end_datetime on the batch date or the day after.
\* An entry that starts at an earlier time of day than its predecessor
\* stays on the batch date, so its start_datetime is before the
\* predecessor's, and a predecessor without explicit end ends at that
\* entry's start time of day on the day after the batch date.
C27_StartsOnBatchDate ==
    (pc = "parsed" /\ parsed_tasks.ok) =>
        LET ts == parsed_tasks.tasks
            day == task_date[1]
        IN  \A i \in 1..Len(ts) :
                /\ ts[i].start_datetime.date = day
                /\ ts[i].end_datetime # None
                     => ts[i].end_datetime[1].date \in {day, NextDay(day)}
                /\ StartsEarlierThanPredecessor(i)
                     => /\ DtLess(ts[i + 1].start_datetime, ts[i].start_datetime)
                        /\ RE_LINE(MatchedLines[i]).end = None
                             => ts[i].end_datetime =
                                  Some([date |-> NextDay(day),
                                        hh |-> ts[i + 1].start_datetime.hh,
                                        mm |-> ts[i + 1].start_datetime.mm])

\* a produced batch with a line after midnight behind a line without
\* explicit end
C27_Witness ==
    /\ pc = "parsed"
    /\ parsed_tasks.ok
    /\ \E i \in 1..Len(parsed_tasks.tasks) :
         /\ StartsEarlierThanPredecessor(i)
         /\ RE_LINE(MatchedLines[i]).end = None
         /\ parsed_tasks.tasks[i].end_datetime # None
         /\ parsed_tasks.tasks[i].end_datetime[1].date = NextDay(task_date[1])

(***************************************************************************)
(* Properties of out-of-range time tokens, under Spec.                     *)
(***************************************************************************)
\* the line has the activity shape and a start or end token that is no
\* time of day
OutOfRange(line) ==
    /\ LineMatches(line)
    /\ \/ TokTime(RE_LINE(line).start)[1] > 23
       \/ TokTime(RE_LINE(line).start)[2] > 59
       \/ /\ RE_LINE(line).end # None
          /\ \/ TokTime(RE_LINE(line).end)[1] > 23
             \/ TokTime(RE_LINE(line).end)[2] > 59

\* the line has the activity shape and its tokens are times of day
InRange(line) == LineMatches(line) /\ ~OutOfRange(line)

\* C28: a line of the activity shape whose start or end token is out of
\* range is not skipped: the whole batch yields no result and the pipeline
\* ends without a request to the language model and without persisting
\* anything, also when the other lines are valid.
C28_OutOfRangeAbortsBatch ==
    (LocalStageDone /\ \E i \in 1..Len(text) : OutOfRange(text[i])) =>
        /\ pc = "done"
        /\ tasks_data = None
        /\ returned = Some(FALSE)
        /\ \A k \in 1..Len(events) : ~IsChatRequest(events[k])
        /\ tasks_csv = << >> /\ notion_pages = << >>

\* a batch of a valid line and a line with an out-of-range token, sent by a
\* connected user, was given up
C28_Witness ==
    /\ pc = "done"
    /\ mode = "tasks"
    /\ Connected
    /\ \E i, j \in 1..Len(text) : OutOfRange(text[i]) /\ InRange(text[j])
    /\ returned = Some(FALSE)

\* create_notion_task has returned: its report is the last answer
CreateNotionTaskReturned ==
    /\ pc = "done"
    /\ mode = "tasks"
    /\ answers # << >>
    /\ Last(answers) \in {"created", "saved_locally_but_not_in_notion"}

\* the records of the first k of the tasks, in their order
RecordsOfPrefix(k) == [i \in 1..k |-> NotionProps(tasks_data[1][i])]

\* C29: create_notion_task stops at the first failing create request: when it
\* returns False for n tasks, the records it created are those of tasks
\* 0..k-1 for some k < n, in order, and no task after the failing one was
\* attempted; when it returns True, exactly one record per task was created,
\* in order.
C29_StopsAtFirstFailure ==
    CreateNotionTaskReturned =>
        LET n == Len(tasks_data[1])
        IN  /\ returned = Some(FALSE) =>
                \E k \in 0..(n - 1) :
                    /\ notion_pages = RecordsOfPrefix(k)
                    /\ Len(Creates) = k + 1
                    /\ \A i \in 1..(k + 1) :
                          /\ Creates[i].props = Some(NotionProps(tasks_data[1][i]))
                          /\ Creates[i].ok = (i <= k)
            /\ returned = Some(TRUE) =>
                /\ notion_pages = RecordsOfPrefix(n)
                /\ Len(Creates) = n
                /\ \A i \in 1..n :
                      /\ Creates[i].props = Some(NotionProps(tasks_data[1][i]))
                      /\ Creates[i].ok

\* a batch of three tasks whose second create request failed
C29_Witness ==
    /\ CreateNotionTaskReturned
    /\ returned = Some(FALSE)
    /\ Len(tasks_data[1]) = 3
    /\ Len(notion_pages) = 1
    /\ Len(Creates) = 2

\* the answers telling the user that the data were saved locally: task mode
\* (tasks.py lines 167, 202, 206) and thought mode (lines 105, 109)
SavedLocallyAnswers ==
    {"created", "created_but_not_in_notion", "saved_locally_but_not_in_notion",
     "thoughts_saved_locally", "thoughts_not_in_notion"}

ToldSavedLocally == \E i \in 1..Len(answers) : answers[i] \in SavedLocallyAnswers

\* C30: whenever a handler tells the user that data were saved locally, in
\* task mode or in thought mode, a write of that data to the local flat-file
\* store has completed successfully earlier in the same invocation: the store
\* holds rows written by this invocation.
C30_SavedLocallyWasWritten == ToldSavedLocally => tasks_csv # << >>

====
